---- MODULE Spec2Model ----
(***************************************************************************)
(* A model of the Hexagony interpreter of rytheo/hexagony: the source grid *)
(* (grid.rs), the hexagonal edge memory (memory.rs), directions and        *)
(* redirects (direction.rs), axial points (coords.rs) and the interpreter  *)
(* loop with its six instruction pointers (lib.rs).                        *)
(*                                                                         *)
(* The Hexagony struct is modelled as a record h with the fields of the    *)
(* struct plus the two output streams and the result of run(); the         *)
(* variables of the module are the fields of that record.  rug::Integer is *)
(* arbitrary precision, and so is Int.                                     *)
(***************************************************************************)
EXTENDS Integers, Sequences, FiniteSets, TLC

\* ------------------------------------------------------------------ bounds

\* Ticks after which a run is no longer followed (run() itself has no cap).
MaxTicks == 24
\* Neighbour values of the arithmetic specification range over -MaxVal..MaxVal.
MaxVal == 7
\* Memory-pointer coordinates of the memory specification: -MaxCoord..MaxCoord.
MaxCoord == 2
\* Grid sides of the advance specification: 2..MaxSide.
MaxSide == 4
\* Source texts of the parser specification: every text of up to MaxShort
\* characters, and patterned texts of up to MaxSrcLen characters.
MaxShort == 3
MaxSrcLen == 22
\* Sides given to source_template: 0..MaxTemplate.
MaxTemplate == 3
\* Inputs of the read specification: up to MaxInput bytes.
MaxInput == 4

\* ------------------------------------------------------------- coords.rs

PointAxial(q, r) == <<q, r>>

\* impl Add for PointAxial
PointAdd(a, b) == <<a[1] + b[1], a[2] + b[2]>>

\* impl Sub for PointAxial
PointSub(a, b) == <<a[1] - b[1], a[2] - b[2]>>

Abs(n) == IF n < 0 THEN -n ELSE n

\* ---------------------------------------------------------- direction.rs

Direction == {"NorthEast", "NorthWest", "West", "SouthWest", "SouthEast", "East"}

Redirect ==
    {"MirrorHori", "MirrorVert", "MirrorForw", "MirrorBack", "BranchLeft", "BranchRight"}

to_vector(dir) ==
    CASE dir = "NorthEast" -> PointAxial(1, -1)
      [] dir = "NorthWest" -> PointAxial(0, -1)
      [] dir = "West"      -> PointAxial(-1, 0)
      [] dir = "SouthWest" -> PointAxial(-1, 1)
      [] dir = "SouthEast" -> PointAxial(0, 1)
      [] dir = "East"      -> PointAxial(1, 0)

redirect(dir, redir, positive) ==
    CASE dir = "NorthEast" /\ redir = "MirrorHori"  -> "SouthEast"
      [] dir = "NorthEast" /\ redir = "MirrorVert"  -> "NorthWest"
      [] dir = "NorthEast" /\ redir = "MirrorForw"  -> "NorthEast"
      [] dir = "NorthEast" /\ redir = "MirrorBack"  -> "West"
      [] dir = "NorthEast" /\ redir = "BranchLeft"  -> "SouthWest"
      [] dir = "NorthEast" /\ redir = "BranchRight" -> "East"
      [] dir = "NorthWest" /\ redir = "MirrorHori"  -> "SouthWest"
      [] dir = "NorthWest" /\ redir = "MirrorVert"  -> "NorthEast"
      [] dir = "NorthWest" /\ redir = "MirrorForw"  -> "East"
      [] dir = "NorthWest" /\ redir = "MirrorBack"  -> "NorthWest"
      [] dir = "NorthWest" /\ redir = "BranchLeft"  -> "West"
      [] dir = "NorthWest" /\ redir = "BranchRight" -> "SouthEast"
      [] dir = "West" /\ redir = "MirrorHori"  -> "West"
      [] dir = "West" /\ redir = "MirrorVert"  -> "East"
      [] dir = "West" /\ redir = "MirrorForw"  -> "SouthEast"
      [] dir = "West" /\ redir = "MirrorBack"  -> "NorthEast"
      [] dir = "West" /\ redir = "BranchLeft"  -> "East"
      [] dir = "West" /\ redir = "BranchRight" ->
            IF positive THEN "NorthWest" ELSE "SouthWest"
      [] dir = "SouthWest" /\ redir = "MirrorHori"  -> "NorthWest"
      [] dir = "SouthWest" /\ redir = "MirrorVert"  -> "SouthEast"
      [] dir = "SouthWest" /\ redir = "MirrorForw"  -> "SouthWest"
      [] dir = "SouthWest" /\ redir = "MirrorBack"  -> "East"
      [] dir = "SouthWest" /\ redir = "BranchLeft"  -> "West"
      [] dir = "SouthWest" /\ redir = "BranchRight" -> "NorthEast"
      [] dir = "SouthEast" /\ redir = "MirrorHori"  -> "NorthEast"
      [] dir = "SouthEast" /\ redir = "MirrorVert"  -> "SouthWest"
      [] dir = "SouthEast" /\ redir = "MirrorForw"  -> "West"
      [] dir = "SouthEast" /\ redir = "MirrorBack"  -> "SouthEast"
      [] dir = "SouthEast" /\ redir = "BranchLeft"  -> "NorthWest"
      [] dir = "SouthEast" /\ redir = "BranchRight" -> "East"
      [] dir = "East" /\ redir = "MirrorHori"  -> "East"
      [] dir = "East" /\ redir = "MirrorVert"  -> "West"
      [] dir = "East" /\ redir = "MirrorForw"  -> "NorthWest"
      [] dir = "East" /\ redir = "MirrorBack"  -> "SouthWest"
      [] dir = "East" /\ redir = "BranchLeft"  ->
            IF positive THEN "SouthEast" ELSE "NorthEast"
      [] dir = "East" /\ redir = "BranchRight" -> "West"

\* --------------------------------------------------------------- grid.rs

\* enum Op: a record with the variant in kind and the payload of the three
\* variants that carry one.
Nop == [kind |-> "Nop"]
Letter(b) == [kind |-> "Letter", b |-> b]
Digit(d) == [kind |-> "Digit", d |-> d]
Redir(redir) == [kind |-> "Redir", redir |-> redir]
Plain(kind) == [kind |-> kind]

\* The debug marker of a source, the grave accent (U+0060).  The lexer of the
\* language does not accept that character inside a string, so it is the one
\* source character written by name.
Backtick == "BACKTICK"

\* char::is_whitespace, on the characters the model's sources are written in.
Whitespace == {" ", "\t", "\n", "\r"}

UpperCase == <<"A", "B", "C", "D", "E", "F", "G", "H", "I", "J", "K", "L", "M",
               "N", "O", "P", "Q", "R", "S", "T", "U", "V", "W", "X", "Y", "Z">>
LowerCase == <<"a", "b", "c", "d", "e", "f", "g", "h", "i", "j", "k", "l", "m",
               "n", "o", "p", "q", "r", "s", "t", "u", "v", "w", "x", "y", "z">>
DigitChars == <<"0", "1", "2", "3", "4", "5", "6", "7", "8", "9">>

Range(s) == {s[i] : i \in DOMAIN s}
IndexOf(s, c) == CHOOSE i \in DOMAIN s : s[i] = c

\* `c as u8` for an ASCII letter or digit: 'A' is 65, 'a' is 97, '0' is 48.
AsU8(c) ==
    IF c \in Range(UpperCase) THEN 64 + IndexOf(UpperCase, c)
    ELSE IF c \in Range(LowerCase) THEN 96 + IndexOf(LowerCase, c)
    ELSE 47 + IndexOf(DigitChars, c)

\* The characters of the match in Grid::from_str that have one fixed Op.
PlainChars ==
    [c \in {"@", ")", "(", "+", "-", "*", ":", "%", "~", ",", "?", ";", "!", "$",
            "[", "]", "#", "{", "}", "\"", "'", "=", "^", "&"} |->
        CASE c = "@" -> "Terminate"
          [] c = ")" -> "Increment"
          [] c = "(" -> "Decrement"
          [] c = "+" -> "Add"
          [] c = "-" -> "Subtract"
          [] c = "*" -> "Multiply"
          [] c = ":" -> "Divide"
          [] c = "%" -> "Modulo"
          [] c = "~" -> "Negate"
          [] c = "," -> "ReadByte"
          [] c = "?" -> "ReadInt"
          [] c = ";" -> "WriteByte"
          [] c = "!" -> "WriteInt"
          [] c = "$" -> "Jump"
          [] c = "[" -> "IPPrev"
          [] c = "]" -> "IPNext"
          [] c = "#" -> "IPSelect"
          [] c = "{" -> "MPLeft"
          [] c = "}" -> "MPRight"
          [] c = "\"" -> "MPBackLeft"
          [] c = "'" -> "MPBackRight"
          [] c = "=" -> "MPReverse"
          [] c = "^" -> "MPBranch"
          [] c = "&" -> "MemCopy"]

RedirChars ==
    [c \in {"_", "|", "/", "\\", "<", ">"} |->
        CASE c = "_"  -> "MirrorHori"
          [] c = "|"  -> "MirrorVert"
          [] c = "/"  -> "MirrorForw"
          [] c = "\\" -> "MirrorBack"
          [] c = "<"  -> "BranchLeft"
          [] c = ">"  -> "BranchRight"]

\* The characters the match in Grid::from_str decodes to an Op.
IsOpChar(c) ==
    \/ c = "."
    \/ c \in Range(UpperCase) \cup Range(LowerCase) \cup Range(DigitChars)
    \/ c \in DOMAIN PlainChars
    \/ c \in DOMAIN RedirChars

\* The match of Grid::from_str with the arms of '.' and '@' exchanged.
DecodeOp_DotTerminates(c) ==
    IF c = "." THEN Plain("Terminate")
    ELSE IF c = "@" THEN Nop
    ELSE IF c \in Range(UpperCase) \cup Range(LowerCase) THEN Letter(AsU8(c))
    ELSE IF c \in Range(DigitChars) THEN Digit(AsU8(c) - 48)
    ELSE IF c \in DOMAIN RedirChars THEN Redir(RedirChars[c])
    ELSE Plain(PlainChars[c])

\* The match of Grid::from_str on a character that is an instruction.
DecodeOp(c) ==
    IF c = "." THEN Nop
    ELSE IF c \in Range(UpperCase) \cup Range(LowerCase) THEN Letter(AsU8(c))
    ELSE IF c \in Range(DigitChars) THEN Digit(AsU8(c) - 48)
    ELSE IF c \in DOMAIN RedirChars THEN Redir(RedirChars[c])
    ELSE Plain(PlainChars[c])

\* Grid::new: diameter rows, row i (from 0) of length diameter - |s - i|,
\* every cell (Nop, false).  Row i is grid[i + 1].
GridNew(size) ==
    LET diameter == 2 * size - 1
        s == size - 1
    IN [size |-> size,
        grid |-> [i \in 1..diameter |->
                    LET b == IF s > i - 1 THEN s - (i - 1) ELSE (i - 1) - s
                    IN [j \in 1..(diameter - b) |-> <<Nop, FALSE>>]]]

\* A slip in Grid::axial_to_index: the column is offset by the row on every
\* row, the .min(size - 1) left out.
axial_to_index_NoMin(g, coords) ==
    LET q == coords[1]
        r == coords[2]
        row == r + g.size - 1
        col == q + row
    IN <<row, col>>

\* Grid::axial_to_index, as the signed pair before the casts to usize.
axial_to_index(g, coords) ==
    LET q == coords[1]
        r == coords[2]
        row == r + g.size - 1
        col == q + (IF row < g.size - 1 THEN row ELSE g.size - 1)
    IN <<row, col>>

\* Whether self.grid[row][col] of Grid::get is inside the vectors; outside
\* them the indexing panics.
InGrid(g, coords) ==
    LET rc == axial_to_index(g, coords)
    IN /\ rc[1] >= 0 /\ rc[1] < Len(g.grid)
       /\ rc[2] >= 0 /\ rc[2] < Len(g.grid[rc[1] + 1])

\* Grid::get
GridGet(g, coords) ==
    LET rc == axial_to_index(g, coords)
    IN g.grid[rc[1] + 1][rc[2] + 1]

\* The count of Grid::from_str, line 115.
SrcSize(s) == Cardinality({i \in DOMAIN s : s[i] \notin Whitespace /\ s[i] # Backtick})

\* Iterator::find on the range from n on, line 116.
RECURSIVE FindSizeFrom(_, _)
FindSizeFrom(n, src_size) ==
    IF 3 * n * (n - 1) + 1 >= src_size THEN n ELSE FindSizeFrom(n + 1, src_size)

\* The search of line 116 with > for >=.
RECURSIVE FindSizeFromStrict(_, _)
FindSizeFromStrict(n, src_size) ==
    IF 3 * n * (n - 1) + 1 > src_size THEN n ELSE FindSizeFromStrict(n + 1, src_size)

FindSize_Strict(src_size) == FindSizeFromStrict(1, src_size)

\* The search of line 116: the first n of 1, 2, ... with
\* 3 * n * (n - 1) + 1 >= src_size.
FindSize(src_size) == FindSizeFrom(1, src_size)

\* What err holds when the store of line 161 indexes outside the grid: the
\* indexing panics.
IndexPanic == "index out of bounds"

\* The body of the loop of Grid::from_str without line 162: the debug flag,
\* once set, stays set.
ParseStep_StickyDebug(st, c) ==
    IF c \in Whitespace THEN st
    ELSE IF c = Backtick THEN [st EXCEPT !.debug = TRUE]
    ELSE IF ~IsOpChar(c) THEN [st EXCEPT !.err = c]
    ELSE IF st.row >= Len(st.grid.grid) THEN [st EXCEPT !.err = IndexPanic]
    ELSE LET last == st.col >= Len(st.grid.grid[st.row + 1]) - 1
         IN [grid |-> [st.grid EXCEPT
                          !.grid[st.row + 1][st.col + 1] = <<DecodeOp(c), st.debug>>],
             row |-> IF last THEN st.row + 1 ELSE st.row,
             col |-> IF last THEN 0 ELSE st.col + 1,
             debug |-> st.debug,
             err |-> ""]

\* The body of the loop of Grid::from_str, lines 123-168, on the character
\* c: st holds the grid, the cursor (row, col, from 0), the pending debug
\* flag and err, the character of a SyntaxError or "" while there is none.
ParseStep(st, c) ==
    IF c \in Whitespace THEN st
    ELSE IF c = Backtick THEN [st EXCEPT !.debug = TRUE]
    ELSE IF ~IsOpChar(c) THEN [st EXCEPT !.err = c]
    ELSE IF st.row >= Len(st.grid.grid) THEN [st EXCEPT !.err = IndexPanic]
    ELSE LET last == st.col >= Len(st.grid.grid[st.row + 1]) - 1
         IN [grid |-> [st.grid EXCEPT
                          !.grid[st.row + 1][st.col + 1] = <<DecodeOp(c), st.debug>>],
             row |-> IF last THEN st.row + 1 ELSE st.row,
             col |-> IF last THEN 0 ELSE st.col + 1,
             debug |-> FALSE,
             err |-> ""]

\* The loop of Grid::from_str, line 122, from character i on; an error
\* returns from it.
RECURSIVE ParseFrom(_, _, _)
ParseFrom(s, i, st) ==
    IF i > Len(s) \/ st.err # "" THEN st
    ELSE ParseFrom(s, i + 1, ParseStep(st, s[i]))

\* Grid::from_str: [ok, grid] or [ok, err] for Err(SyntaxError(err)).
from_str(s) ==
    LET size == FindSize(SrcSize(s))
        st == ParseFrom(s, 1, [grid |-> GridNew(size), row |-> 0, col |-> 0,
                               debug |-> FALSE, err |-> ""])
    IN IF st.err = "" THEN [ok |-> TRUE, grid |-> st.grid, err |-> ""]
       ELSE [ok |-> FALSE, grid |-> GridNew(1), err |-> st.err]

\* `b as char` of the arm Letter(b) of Display for Op, on the codes of the
\* ASCII letters.
AsChar(b) == IF b >= 97 THEN LowerCase[b - 96] ELSE UpperCase[b - 64]

\* The characters Display for Op writes for the variants that have one fixed
\* character, lines 193-224.
OpChars ==
    [k \in {"Nop", "Terminate", "Increment", "Decrement", "Add", "Subtract", "Multiply",
            "Divide", "Modulo", "Negate", "ReadByte", "ReadInt", "WriteByte", "WriteInt",
            "Jump", "IPPrev", "IPNext", "IPSelect", "MPLeft", "MPRight", "MPBackLeft",
            "MPBackRight", "MPReverse", "MPBranch", "MemCopy"} |->
        CASE k = "Nop" -> "."
          [] k = "Terminate" -> "@"
          [] k = "Increment" -> ")"
          [] k = "Decrement" -> "("
          [] k = "Add" -> "+"
          [] k = "Subtract" -> "-"
          [] k = "Multiply" -> "*"
          [] k = "Divide" -> ":"
          [] k = "Modulo" -> "%"
          [] k = "Negate" -> "~"
          [] k = "ReadByte" -> ","
          [] k = "ReadInt" -> "?"
          [] k = "WriteByte" -> ";"
          [] k = "WriteInt" -> "!"
          [] k = "Jump" -> "$"
          [] k = "IPPrev" -> "["
          [] k = "IPNext" -> "]"
          [] k = "IPSelect" -> "#"
          [] k = "MPLeft" -> "{"
          [] k = "MPRight" -> "}"
          [] k = "MPBackLeft" -> "\""
          [] k = "MPBackRight" -> "'"
          [] k = "MPReverse" -> "="
          [] k = "MPBranch" -> "^"
          [] k = "MemCopy" -> "&"]

\* The characters Display for Op writes for Redir(redir), lines 210-215.
RedirectChars ==
    [k \in Redirect |->
        CASE k = "MirrorHori" -> "_"
          [] k = "MirrorVert" -> "|"
          [] k = "MirrorForw" -> "/"
          [] k = "MirrorBack" -> "\\"
          [] k = "BranchLeft" -> "<"
          [] k = "BranchRight" -> ">"]

\* impl fmt::Display for Op
DisplayOp(op) ==
    IF op.kind = "Letter" THEN AsChar(op.b)
    ELSE IF op.kind = "Digit" THEN DigitChars[op.d + 1]
    ELSE IF op.kind = "Redir" THEN RedirectChars[op.redir]
    ELSE OpChars[op.kind]

\* One line of Display for Grid, lines 178-182: the padding, then for every
\* cell the debug marker or a space and the character of the Op, then the
\* end of the line.
DisplayLine(size, line) ==
    [i \in 1..(2 * size - 1 - Len(line)) |-> " "]
    \o [i \in 1..(2 * Len(line)) |->
           IF i % 2 = 1 THEN (IF line[(i + 1) \div 2][2] THEN Backtick ELSE " ")
           ELSE DisplayOp(line[i \div 2][1])]
    \o <<"\n">>

\* The lines of Display for Grid from line i on.
RECURSIVE DisplayFrom(_, _)
DisplayFrom(g, i) ==
    IF i > Len(g.grid) THEN << >>
    ELSE DisplayLine(g.size, g.grid[i]) \o DisplayFrom(g, i + 1)

\* impl fmt::Display for Grid: the text, as the sequence of its characters.
Display(g) == DisplayFrom(g, 1)

\* source_template (lib.rs)
source_template(size) == IF size = 0 THEN << >> ELSE Display(GridNew(size))

\* ------------------------------------------------------------- memory.rs

\* An edge index is <<q, r, e>> with e one of the three values of enum Dir.
Dir == {"NE", "E", "SE"}
Rot == {"CW", "CCW"}

\* Memory::new: the struct as a record; the field default is the constant 0.
MemoryNew == [mem |-> << >>, mp |-> <<0, 0, "E">>, rot |-> "CCW"]

\* A slip in the table of left_index: the arm (NE, CW) keeps the orientation.
left_index_NoFlip(m) ==
    LET q == m.mp[1]
        r == m.mp[2]
        e == m.mp[3]
    IN CASE e = "NE" /\ m.rot = "CCW" -> <<<<q, r - 1, "SE">>, "CW">>
         [] e = "NE" /\ m.rot = "CW"  -> <<<<q + 1, r - 1, "SE">>, "CW">>
         [] e = "E"  /\ m.rot = "CCW" -> <<<<q, r, "NE">>, "CCW">>
         [] e = "E"  /\ m.rot = "CW"  -> <<<<q, r + 1, "NE">>, "CW">>
         [] e = "SE" /\ m.rot = "CCW" -> <<<<q, r, "E">>, "CCW">>
         [] e = "SE" /\ m.rot = "CW"  -> <<<<q - 1, r + 1, "E">>, "CW">>

\* Memory::left_index
left_index(m) ==
    LET q == m.mp[1]
        r == m.mp[2]
        e == m.mp[3]
    IN CASE e = "NE" /\ m.rot = "CCW" -> <<<<q, r - 1, "SE">>, "CW">>
         [] e = "NE" /\ m.rot = "CW"  -> <<<<q + 1, r - 1, "SE">>, "CCW">>
         [] e = "E"  /\ m.rot = "CCW" -> <<<<q, r, "NE">>, "CCW">>
         [] e = "E"  /\ m.rot = "CW"  -> <<<<q, r + 1, "NE">>, "CW">>
         [] e = "SE" /\ m.rot = "CCW" -> <<<<q, r, "E">>, "CCW">>
         [] e = "SE" /\ m.rot = "CW"  -> <<<<q - 1, r + 1, "E">>, "CW">>

\* A slip in the table of right_index: the arm (SE, CCW) keeps the orientation.
right_index_NoFlip(m) ==
    LET q == m.mp[1]
        r == m.mp[2]
        e == m.mp[3]
    IN CASE e = "NE" /\ m.rot = "CCW" -> <<<<q, r - 1, "E">>, "CCW">>
         [] e = "NE" /\ m.rot = "CW"  -> <<<<q, r, "E">>, "CW">>
         [] e = "E"  /\ m.rot = "CCW" -> <<<<q + 1, r - 1, "SE">>, "CCW">>
         [] e = "E"  /\ m.rot = "CW"  -> <<<<q, r, "SE">>, "CW">>
         [] e = "SE" /\ m.rot = "CCW" -> <<<<q, r + 1, "NE">>, "CCW">>
         [] e = "SE" /\ m.rot = "CW"  -> <<<<q - 1, r + 1, "NE">>, "CCW">>

\* Memory::right_index
right_index(m) ==
    LET q == m.mp[1]
        r == m.mp[2]
        e == m.mp[3]
    IN CASE e = "NE" /\ m.rot = "CCW" -> <<<<q, r - 1, "E">>, "CCW">>
         [] e = "NE" /\ m.rot = "CW"  -> <<<<q, r, "E">>, "CW">>
         [] e = "E"  /\ m.rot = "CCW" -> <<<<q + 1, r - 1, "SE">>, "CCW">>
         [] e = "E"  /\ m.rot = "CW"  -> <<<<q, r, "SE">>, "CW">>
         [] e = "SE" /\ m.rot = "CCW" -> <<<<q, r + 1, "NE">>, "CW">>
         [] e = "SE" /\ m.rot = "CW"  -> <<<<q - 1, r + 1, "NE">>, "CCW">>

\* self.mem.get(&index).unwrap_or(&self.default)
MemAt(m, index) == IF index \in DOMAIN m.mem THEN m.mem[index] ELSE 0

\* Memory::get_left
get_left(m) == MemAt(m, left_index(m)[1])

\* Memory::get_right
get_right(m) == MemAt(m, right_index(m)[1])

\* Memory::get
get(m) == MemAt(m, m.mp)

\* Memory::set: HashMap::insert at the current index.
set(m, value) == [m EXCEPT !.mem = (m.mp :> value) @@ m.mem]

\* Memory::get_mut: entry(mp).or_default() creates the edge with 0 when it is
\* absent; the caller then writes through the reference with set.
get_mut(m) == IF m.mp \in DOMAIN m.mem THEN m ELSE set(m, 0)

\* A slip in Memory::move_left: the orientation the table gives is dropped.
move_left_KeepsRot(m) == [m EXCEPT !.mp = left_index(m)[1]]

\* Memory::move_left
move_left(m) == [m EXCEPT !.mp = left_index(m)[1], !.rot = left_index(m)[2]]

\* Memory::move_right
move_right(m) == [m EXCEPT !.mp = right_index(m)[1], !.rot = right_index(m)[2]]

\* Memory::reverse
reverse(m) == [m EXCEPT !.rot = IF m.rot = "CW" THEN "CCW" ELSE "CW"]

\* ---------------------------------------------------------------- lib.rs

\* An item of self.input that is Some(Err(_)): a failed read of stdin.  Every
\* other item is a byte, 0..255.
IoErr == -1

\* rug: Integer / Integer and the quotient of div_rem round toward zero.
TruncDiv(left, right) ==
    LET n == Abs(left) \div Abs(right)
    IN IF (left < 0) = (right < 0) THEN n ELSE -n

\* rug: the remainder of div_rem_ref, which has the sign of the dividend.
TruncRem(left, right) == left - TruncDiv(left, right) * right

\* mod_u as the remainder of the magnitude: the sign of v is dropped.
mod_u_Magnitude(v, modulo) == (IF v < 0 THEN -v ELSE v) % modulo

\* rug: Integer::mod_u, the remainder of Euclidean division by a u32.
mod_u(v, modulo) == v % modulo

\* The bytes print!("{}", v) writes for an Integer: its decimal digits, after
\* a minus sign when it is negative.
RECURSIVE DecimalDigits(_)
DecimalDigits(n) ==
    IF n < 10 THEN <<48 + n>>
    ELSE Append(DecimalDigits(n \div 10), 48 + (n % 10))

Decimal(v) == IF v < 0 THEN <<45>> \o DecimalDigits(-v) ELSE DecimalDigits(v)

\* Hexagony::new after a successful parse: the struct, with the two output
\* streams and the result of run() ("Running" while the loop runs).
HexagonyNew(g, level, inp) ==
    LET size == g.size
    IN [grid |-> g,
        mem |-> MemoryNew,
        ips |-> [i \in 0..5 |->
                   CASE i = 0 -> [coords |-> PointAxial(0, -size + 1), dir |-> "East"]
                     [] i = 1 -> [coords |-> PointAxial(size - 1, -size + 1), dir |-> "SouthEast"]
                     [] i = 2 -> [coords |-> PointAxial(size - 1, 0), dir |-> "SouthWest"]
                     [] i = 3 -> [coords |-> PointAxial(0, size - 1), dir |-> "West"]
                     [] i = 4 -> [coords |-> PointAxial(-size + 1, size - 1), dir |-> "NorthWest"]
                     [] i = 5 -> [coords |-> PointAxial(-size + 1, 0), dir |-> "NorthEast"]],
        ip_idx |-> 0,
        tick |-> 0,
        debug_level |-> level,
        input |-> inp,
        stdout |-> << >>,
        stderr |-> << >>,
        result |-> "Running"]

\* run(src, debug_level): Hexagony::new(src, debug_level)?, a SyntaxError of
\* the parse ending the run before its first tick.
New(s, level, inp) ==
    LET parsed == from_str(s)
    IN IF parsed.ok THEN HexagonyNew(parsed.grid, level, inp)
       ELSE [HexagonyNew(parsed.grid, level, inp) EXCEPT
                !.result = IF parsed.err = IndexPanic THEN "Panic" ELSE "SyntaxError"]

\* The first arm of the match of advance_ip, line 201: unreachable!().
IsUnreachable(x_big, y_big, z_big) ==
    (~x_big /\ ~y_big /\ ~z_big) \/ (x_big /\ y_big /\ z_big)

\* A slip in the match of advance_ip: the destinations of the edges
\* (false, true, false) and (true, false, false) are exchanged.
WrapCoords_SwappedEdges(q, r, x_big, y_big, z_big, positive) ==
    CASE ~x_big /\ ~y_big /\ z_big -> PointAxial(q + r, -r)
      [] ~x_big /\ y_big /\ ~z_big -> PointAxial(-q, q + r)
      [] x_big /\ ~y_big /\ ~z_big -> PointAxial(-r, -q)
      [] (~x_big /\ y_big /\ z_big /\ ~positive) \/ (x_big /\ ~y_big /\ z_big /\ positive) ->
            PointAxial(q + r, -r)
      [] (x_big /\ ~y_big /\ z_big /\ ~positive) \/ (x_big /\ y_big /\ ~z_big /\ positive) ->
            PointAxial(-q, q + r)
      [] (x_big /\ y_big /\ ~z_big /\ ~positive) \/ (~x_big /\ y_big /\ z_big /\ positive) ->
            PointAxial(-r, -q)

\* A slip in the match of advance_ip: the two paths of each corner are taken
\* on the opposite sign of the current edge.
WrapCoords_SignInverted(q, r, x_big, y_big, z_big, positive) ==
    CASE ~x_big /\ ~y_big /\ z_big -> PointAxial(q + r, -r)
      [] ~x_big /\ y_big /\ ~z_big -> PointAxial(-r, -q)
      [] x_big /\ ~y_big /\ ~z_big -> PointAxial(-q, q + r)
      [] (~x_big /\ y_big /\ z_big /\ positive) \/ (x_big /\ ~y_big /\ z_big /\ ~positive) ->
            PointAxial(q + r, -r)
      [] (x_big /\ ~y_big /\ z_big /\ positive) \/ (x_big /\ y_big /\ ~z_big /\ ~positive) ->
            PointAxial(-q, q + r)
      [] (x_big /\ y_big /\ ~z_big /\ positive) \/ (~x_big /\ y_big /\ z_big /\ ~positive) ->
            PointAxial(-r, -q)

\* The match of advance_ip, lines 199-211, on the pre-move (q, r): the
\* wrapped coordinates of every arm but the first.
WrapCoords(q, r, x_big, y_big, z_big, positive) ==
    CASE ~x_big /\ ~y_big /\ z_big -> PointAxial(q + r, -r)
      [] ~x_big /\ y_big /\ ~z_big -> PointAxial(-r, -q)
      [] x_big /\ ~y_big /\ ~z_big -> PointAxial(-q, q + r)
      [] (~x_big /\ y_big /\ z_big /\ ~positive) \/ (x_big /\ ~y_big /\ z_big /\ positive) ->
            PointAxial(q + r, -r)
      [] (x_big /\ ~y_big /\ z_big /\ ~positive) \/ (x_big /\ y_big /\ ~z_big /\ positive) ->
            PointAxial(-q, q + r)
      [] (x_big /\ y_big /\ ~z_big /\ ~positive) \/ (~x_big /\ y_big /\ z_big /\ positive) ->
            PointAxial(-r, -q)

\* advance_ip without line 197: the wrapped coordinates are computed from the
\* post-move coordinates.
advance_ip_PostMove(h) ==
    IF h.grid.size = 1 THEN h
    ELSE LET ip == h.ips[h.ip_idx]
             moved == PointAdd(ip.coords, to_vector(ip.dir))
             x == moved[1]
             z == moved[2]
             y == -x - z
             size == h.grid.size
             x_big == Abs(x) >= size
             y_big == Abs(y) >= size
             z_big == Abs(z) >= size
         IN IF ~(x_big \/ y_big \/ z_big)
            THEN [h EXCEPT !.ips[h.ip_idx].coords = moved]
            ELSE IF IsUnreachable(x_big, y_big, z_big)
                 THEN [h EXCEPT !.ips[h.ip_idx].coords = moved, !.result = "Panic"]
                 ELSE [h EXCEPT !.ips[h.ip_idx].coords =
                          WrapCoords(moved[1], moved[2], x_big, y_big, z_big,
                                     get(h.mem) > 0)]

\* advance_ip with > for >= in line 191: a cell one step outside the grid
\* counts as in-bounds.
advance_ip_OffByOne(h) ==
    IF h.grid.size = 1 THEN h
    ELSE LET ip == h.ips[h.ip_idx]
             moved == PointAdd(ip.coords, to_vector(ip.dir))
             x == moved[1]
             z == moved[2]
             y == -x - z
             size == h.grid.size
             x_big == Abs(x) > size
             y_big == Abs(y) > size
             z_big == Abs(z) > size
         IN IF ~(x_big \/ y_big \/ z_big)
            THEN [h EXCEPT !.ips[h.ip_idx].coords = moved]
            ELSE LET back == PointSub(moved, to_vector(ip.dir))
                 IN IF IsUnreachable(x_big, y_big, z_big)
                    THEN [h EXCEPT !.ips[h.ip_idx].coords = back, !.result = "Panic"]
                    ELSE [h EXCEPT !.ips[h.ip_idx].coords =
                             WrapCoords(back[1], back[2], x_big, y_big, z_big,
                                        get(h.mem) > 0)]

\* A slip in advance_ip: the second cube component is taken as -x + z.
advance_ip_YSign(h) ==
    IF h.grid.size = 1 THEN h
    ELSE LET ip == h.ips[h.ip_idx]
             moved == PointAdd(ip.coords, to_vector(ip.dir))
             x == moved[1]
             z == moved[2]
             y == -x + z
             size == h.grid.size
             x_big == Abs(x) >= size
             y_big == Abs(y) >= size
             z_big == Abs(z) >= size
         IN IF ~(x_big \/ y_big \/ z_big)
            THEN [h EXCEPT !.ips[h.ip_idx].coords = moved]
            ELSE LET back == PointSub(moved, to_vector(ip.dir))
                 IN IF IsUnreachable(x_big, y_big, z_big)
                    THEN [h EXCEPT !.ips[h.ip_idx].coords = back, !.result = "Panic"]
                    ELSE [h EXCEPT !.ips[h.ip_idx].coords =
                             WrapCoords(back[1], back[2], x_big, y_big, z_big,
                                        get(h.mem) > 0)]

\* Hexagony::advance_ip.  unreachable!() panics: result becomes "Panic".
advance_ip(h) ==
    IF h.grid.size = 1 THEN h
    ELSE LET ip == h.ips[h.ip_idx]
             moved == PointAdd(ip.coords, to_vector(ip.dir))
             x == moved[1]
             z == moved[2]
             y == -x - z
             size == h.grid.size
             x_big == Abs(x) >= size
             y_big == Abs(y) >= size
             z_big == Abs(z) >= size
         IN IF ~(x_big \/ y_big \/ z_big)
            THEN [h EXCEPT !.ips[h.ip_idx].coords = moved]
            ELSE LET back == PointSub(moved, to_vector(ip.dir))
                 IN IF IsUnreachable(x_big, y_big, z_big)
                    THEN [h EXCEPT !.ips[h.ip_idx].coords = back, !.result = "Panic"]
                    ELSE [h EXCEPT !.ips[h.ip_idx].coords =
                             WrapCoords(back[1], back[2], x_big, y_big, z_big,
                                        get(h.mem) > 0)]

\* line 82
dbg_tick(level, dbg) == (level > 1 /\ dbg) \/ level > 0

\* lines 84-89: one entry of stderr for each eprintln!.
TickHeader(h, op) ==
    <<<<"Tick", h.tick>>, <<"IPs">>>>
    \o [i \in 1..6 |-> <<"IP", h.ip_idx = i - 1, i - 1, h.ips[i - 1].coords, h.ips[i - 1].dir>>]
    \o <<<<"Command", op>>>>

\* lines 171-172
TickFooter(h) ==
    <<<<"New direction", h.ips[h.ip_idx].dir>>, <<"Memory", h.mem.mem>>>>

\* The arms of the match of Hexagony::run, lines 92-169, each as the struct
\* after the arm.  An arm that returns sets result.

\* Op::Terminate
DoTerminate(h, dbg) ==
    [h EXCEPT !.stderr = IF dbg THEN Append(@, <<"Memory", h.mem.mem>>) ELSE @,
              !.result = "Ok"]

\* Op::Letter(b)
DoLetter(h, b) == [h EXCEPT !.mem = set(get_mut(h.mem), b)]

\* Op::Digit(d)
DoDigit(h, d) == [h EXCEPT !.mem = set(get_mut(h.mem), get(h.mem) * 10 + d)]

\* Op::Increment
DoIncrement(h) == [h EXCEPT !.mem = set(get_mut(h.mem), get(h.mem) + 1)]

\* Op::Decrement
DoDecrement(h) == [h EXCEPT !.mem = set(get_mut(h.mem), get(h.mem) - 1)]

\* Op::Add adding the neighbours to the current edge instead of replacing it.
DoAdd_WithCurrent(h) ==
    [h EXCEPT !.mem = set(h.mem, get(h.mem) + get_left(h.mem) + get_right(h.mem))]

\* Op::Add
DoAdd(h) == [h EXCEPT !.mem = set(h.mem, get_left(h.mem) + get_right(h.mem))]

\* Op::Subtract
DoSubtract(h) == [h EXCEPT !.mem = set(h.mem, get_left(h.mem) - get_right(h.mem))]

\* Op::Multiply
DoMultiply(h) == [h EXCEPT !.mem = set(h.mem, get_left(h.mem) * get_right(h.mem))]

\* Op::Divide without line 112: a division by 0 stores 0 and goes on.
DoDivide_ZeroQuotient(h) ==
    IF get_right(h.mem) = 0 THEN [h EXCEPT !.mem = set(h.mem, 0)]
    ELSE [h EXCEPT !.mem = set(h.mem, TruncDiv(get_left(h.mem), get_right(h.mem)))]

\* Op::Divide
DoDivide(h) ==
    IF get_right(h.mem) = 0 THEN [h EXCEPT !.result = "ZeroDivisionError"]
    ELSE [h EXCEPT !.mem = set(h.mem, TruncDiv(get_left(h.mem), get_right(h.mem)))]

\* The block of Op::Modulo without the adjustment of line 119.
ModuloValue_Truncated(left, right) == TruncRem(left, right)

\* The block of Op::Modulo, lines 118-119.
ModuloValue(left, right) ==
    LET rem == TruncRem(left, right)
    IN IF rem # 0 /\ (left < 0) # (right < 0) THEN rem + right ELSE rem

\* Op::Modulo
DoModulo(h) ==
    IF get_right(h.mem) = 0 THEN [h EXCEPT !.result = "ZeroDivisionError"]
    ELSE [h EXCEPT !.mem = set(h.mem, ModuloValue(get_left(h.mem), get_right(h.mem)))]

\* Op::Negate
DoNegate(h) == [h EXCEPT !.mem = set(get_mut(h.mem), get(h.mem) * (-1))]

\* Op::ReadByte
DoReadByte(h) ==
    IF h.input = << >> THEN [h EXCEPT !.mem = set(h.mem, -1)]
    ELSE IF Head(h.input) = IoErr
         THEN [h EXCEPT !.input = Tail(@), !.result = "IOError"]
         ELSE [h EXCEPT !.input = Tail(@), !.mem = set(h.mem, Head(h.input))]

\* The first loop of Op::ReadInt, lines 130-144, on the input left: the input
\* after it, val, sign, and whether b? returned an error.
RECURSIVE ReadIntPrefix(_)
ReadIntPrefix(inp) ==
    IF inp = << >> THEN [input |-> inp, val |-> 0, sign |-> 1, err |-> FALSE]
    ELSE LET b == Head(inp) IN
         IF b = IoErr THEN [input |-> Tail(inp), val |-> 0, sign |-> 1, err |-> TRUE]
         ELSE IF b = 43 THEN [input |-> Tail(inp), val |-> 0, sign |-> 1, err |-> FALSE]
         ELSE IF b = 45 THEN [input |-> Tail(inp), val |-> 0, sign |-> -1, err |-> FALSE]
         ELSE IF b \in 48..57
              THEN [input |-> Tail(inp), val |-> 0 * 10 + (b - 48), sign |-> 1, err |-> FALSE]
              ELSE ReadIntPrefix(Tail(inp))

\* The second loop of Op::ReadInt with next() for peek(): the byte that ends
\* the digits is consumed too.
RECURSIVE ReadIntDigits_ConsumesNext(_, _)
ReadIntDigits_ConsumesNext(inp, val) ==
    IF inp = << >> THEN [input |-> inp, val |-> val]
    ELSE IF Head(inp) \in 48..57
         THEN ReadIntDigits_ConsumesNext(Tail(inp), val * 10 + (Head(inp) - 48))
         ELSE [input |-> Tail(inp), val |-> val]

\* The second loop of Op::ReadInt, lines 145-149: peek, and consume digits.
RECURSIVE ReadIntDigits(_, _)
ReadIntDigits(inp, val) ==
    IF inp # << >> /\ Head(inp) \in 48..57
    THEN ReadIntDigits(Tail(inp), val * 10 + (Head(inp) - 48))
    ELSE [input |-> inp, val |-> val]

\* Op::ReadInt
DoReadInt(h) ==
    LET pre == ReadIntPrefix(h.input)
        run == ReadIntDigits(pre.input, pre.val)
    IN IF pre.err
       THEN [h EXCEPT !.mem = set(get_mut(h.mem), 0), !.input = pre.input,
                      !.result = "IOError"]
       ELSE [h EXCEPT !.mem = set(get_mut(h.mem), run.val * pre.sign),
                      !.input = run.input]

\* Op::WriteByte
DoWriteByte(h) == [h EXCEPT !.stdout = Append(@, mod_u(get(h.mem), 256))]

\* Op::WriteInt
DoWriteInt(h) == [h EXCEPT !.stdout = @ \o Decimal(get(h.mem))]

\* Op::Jump as a no-op: only the advance of line 174 is left.
DoJump_NoAdvance(h) == h

\* Op::Jump
DoJump(h) == advance_ip(h)

\* Op::Redir(redir)
DoRedir(h, redir) ==
    [h EXCEPT !.ips[h.ip_idx].dir =
        redirect(h.ips[h.ip_idx].dir, redir, get(h.mem) > 0)]

\* Op::MPLeft
DoMPLeft(h) == [h EXCEPT !.mem = move_left(h.mem)]

\* Op::MPRight
DoMPRight(h) == [h EXCEPT !.mem = move_right(h.mem)]

\* Op::MPBackLeft
DoMPBackLeft(h) == [h EXCEPT !.mem = reverse(move_right(reverse(h.mem)))]

\* A slip in the arm Op::MPBackRight: the middle call is the one of
\* Op::MPBackLeft, move_right.
DoMPBackRight_MovesRight(h) == [h EXCEPT !.mem = reverse(move_right(reverse(h.mem)))]

\* Op::MPBackRight
DoMPBackRight(h) == [h EXCEPT !.mem = reverse(move_left(reverse(h.mem)))]

\* Op::MPReverse
DoMPReverse(h) == [h EXCEPT !.mem = reverse(h.mem)]

\* Op::MPBranch
DoMPBranch(h) ==
    [h EXCEPT !.mem = IF get(h.mem) > 0 THEN move_right(h.mem) ELSE move_left(h.mem)]

\* Op::MemCopy
DoMemCopy(h) ==
    [h EXCEPT !.mem = set(h.mem, IF get(h.mem) > 0 THEN get_right(h.mem)
                                 ELSE get_left(h.mem))]

\* The value the arms Op::IPPrev, Op::IPNext and Op::IPSelect give next_idx,
\* which line 91 starts at self.ip_idx.
next_idx(h, op) ==
    CASE op.kind = "IPPrev"   -> (h.ip_idx + 5) % 6
      [] op.kind = "IPNext"   -> (h.ip_idx + 1) % 6
      [] op.kind = "IPSelect" -> mod_u(get(h.mem), 6)
      [] OTHER -> h.ip_idx

\* match op { ... }, lines 92-169.
RunOp(h, op, dbg) ==
    CASE op.kind = "Nop"         -> h
      [] op.kind = "Terminate"   -> DoTerminate(h, dbg)
      [] op.kind = "Letter"      -> DoLetter(h, op.b)
      [] op.kind = "Digit"       -> DoDigit(h, op.d)
      [] op.kind = "Increment"   -> DoIncrement(h)
      [] op.kind = "Decrement"   -> DoDecrement(h)
      [] op.kind = "Add"         -> DoAdd(h)
      [] op.kind = "Subtract"    -> DoSubtract(h)
      [] op.kind = "Multiply"    -> DoMultiply(h)
      [] op.kind = "Divide"      -> DoDivide(h)
      [] op.kind = "Modulo"      -> DoModulo(h)
      [] op.kind = "Negate"      -> DoNegate(h)
      [] op.kind = "ReadByte"    -> DoReadByte(h)
      [] op.kind = "ReadInt"     -> DoReadInt(h)
      [] op.kind = "WriteByte"   -> DoWriteByte(h)
      [] op.kind = "WriteInt"    -> DoWriteInt(h)
      [] op.kind = "Jump"        -> DoJump(h)
      [] op.kind = "Redir"       -> DoRedir(h, op.redir)
      [] op.kind = "IPPrev"      -> h
      [] op.kind = "IPNext"      -> h
      [] op.kind = "IPSelect"    -> h
      [] op.kind = "MPLeft"      -> DoMPLeft(h)
      [] op.kind = "MPRight"     -> DoMPRight(h)
      [] op.kind = "MPBackLeft"  -> DoMPBackLeft(h)
      [] op.kind = "MPBackRight" -> DoMPBackRight(h)
      [] op.kind = "MPReverse"   -> DoMPReverse(h)
      [] op.kind = "MPBranch"    -> DoMPBranch(h)
      [] op.kind = "MemCopy"     -> DoMemCopy(h)

\* The end of an iteration, lines 175-176, after the advance of line 174 (a
\* panic of unreachable!() ends the run instead).
TickEnd(h, next) ==
    IF h.result # "Running" THEN h
    ELSE [h EXCEPT !.ip_idx = next, !.tick = @ + 1]

\* Lines 170-174 with the advance of line 174 inside the if of line 170.
TickAfterOp_AdvanceInDebug(h, dbg, next) ==
    IF h.result # "Running" THEN h
    ELSE TickEnd(IF dbg THEN advance_ip([h EXCEPT !.stderr = @ \o TickFooter(h)])
                 ELSE h,
                 next)

\* Lines 170-176 with line 175 before line 174: the switch of the active
\* index precedes the advance.
TickAfterOp_SwitchFirst(h, dbg, next) ==
    IF h.result # "Running" THEN h
    ELSE TickEnd(advance_ip([(IF dbg THEN [h EXCEPT !.stderr = @ \o TickFooter(h)] ELSE h)
                             EXCEPT !.ip_idx = next]),
                 next)

\* Lines 170-174, after the match: an arm that returned ends the run.
TickAfterOp(h, dbg, next) ==
    IF h.result # "Running" THEN h
    ELSE TickEnd(advance_ip(IF dbg THEN [h EXCEPT !.stderr = @ \o TickFooter(h)]
                            ELSE h),
                 next)

\* Lines 83-169: the header of the diagnostic block and the match.
TickOp(h, op, dbg) ==
    TickAfterOp(RunOp(IF dbg THEN [h EXCEPT !.stderr = @ \o TickHeader(h, op)] ELSE h,
                      op, dbg),
                dbg, next_idx(h, op))

\* Lines 81-82, on the fetched cell (op, dbg).
TickCell(h, cell) == TickOp(h, cell[1], dbg_tick(h.debug_level, cell[2]))

\* One iteration of the loop of Hexagony::run, lines 81-176.  An index of
\* Grid::get outside the grid panics.
Tick(h) ==
    IF ~InGrid(h.grid, h.ips[h.ip_idx].coords) THEN [h EXCEPT !.result = "Panic"]
    ELSE TickCell(h, GridGet(h.grid, h.ips[h.ip_idx].coords))

\* ------------------------------------------------------------ the runs

\* The sources the runs of the model execute, one character per element.
\* Scenario 5 of the specification
SrcHello ==
    <<"H", ";", "e", ";", "l", ";", "l", ";", "o", ";", "@">>

\* Scenario 3 of the specification
Src321 ==
    <<"3", "2", "1", "+", "!", "@">>

\* Scenario 4 of the specification
Src48 ==
    <<"4", "8", "!", "@">>

\* Scenario 1 of the specification
SrcDot ==
    <<".">>

\* Scenario 2 of the specification
SrcAt ==
    <<"@">>

\* Reads two integers into the left and right neighbours, divides, takes the modulo
SrcArith ==
    <<"?", "{", "?", ".", ".", ".", ".", "'", ":", "!", "%", "!", ".", ".", ".", ".", "@">>

\* Memory moves on a side-3 grid
SrcMem ==
    <<",", ")", "}", ".", ".", ".", ".", "~", "(", "^", "&", "=">>

\* Memory moves and arithmetic
SrcMem2 ==
    <<"1", "{", "2", ".", ".", ".", ".", "\"", "*", "'", "-", ";">>

\* Every cell switches to the next IP
SrcNext ==
    <<"]", "]", "]", "]", "]", "]", "]">>

\* The same with a positive edge
SrcNextPos ==
    <<")", "]", "]", "]", "]", "]", "]">>

\* Every cell switches to the previous IP
SrcPrev ==
    <<"[", "[", "[", "[", "[", "[", "[">>

\* IPSelect on -1
SrcSelect ==
    <<"(", "#", ".", ".", ".", ".", ".">>

\* Redirects on a side-2 grid
SrcRedir2 ==
    <<"<", "\\", "(", "|", ")", "_", "$">>

\* Redirects on a side-3 grid
SrcRedir3 ==
    <<">", "$", "(", "<", "~", ">", ")", "|", "_", "(", ")", "/", "\\", "|", "~", ">", "~", "/", ".">>

\* Two cells carry the debug flag
SrcDebug ==
    <<Backtick, "H", ";", "e", Backtick, ";", "@">>

\* A side-4 grid: Increment, then every cell switches to the next IP.
SrcNext4 ==
    <<")", "]", "]", "]", "]", "]", "]", "]", "]", "]",
      "]", "]", "]", "]", "]", "]", "]", "]", "]", "]">>

\* A side-1 grid holding Modulo: the right neighbour is 0.
SrcMod == <<"%">>

\* A side-3 grid: Increment, IPPrev to IP 5, whose first cell turns it East
\* along the middle row; it leaves the east corner with a positive edge.
SrcEast ==
    <<")", "[", ".", ".", ".", ".", ".", ">">>

\* The same without the Increment: the east corner is left with edge 0.
SrcEastZero ==
    <<".", "[", ".", ".", ".", ".", ".", ">">>

\* IPSelect on k, on a side-3 grid of no-ops: IP k walks its edge, wraps and
\* crosses the centre to the opposite corner with a positive edge.
SrcWalk(k) ==
    <<DigitChars[k + 1], "#", ".", ".", ".", ".", ".", ".">>

\* The same with a Negate in the centre cell: the corner is left with a
\* negative edge.
SrcWalkNeg(k) ==
    <<DigitChars[k + 1], "#", ".", ".", ".", ".", ".", ".", ".", "~">>

\* The bytes of stdin of the arithmetic source: two decimal integers.
TwoInts(a, b) == Decimal(a) \o <<32>> \o Decimal(b)

\* The runs: a source and the bytes on its stdin.
Runs ==
    {<<SrcHello, << >>>>, <<SrcHello, <<120, 10>>>>, <<Src321, << >>>>, <<Src321, <<55>>>>,
     <<Src48, << >>>>, <<SrcDot, << >>>>, <<SrcAt, << >>>>,
     <<SrcMem, << >>>>, <<SrcMem, <<65>>>>, <<SrcMem, <<IoErr>>>>,
     <<SrcMem2, << >>>>, <<SrcNext, << >>>>, <<SrcNextPos, << >>>>, <<SrcPrev, << >>>>,
     <<SrcSelect, << >>>>, <<SrcRedir2, << >>>>, <<SrcRedir3, << >>>>,
     <<SrcDebug, << >>>>, <<SrcNext4, << >>>>, <<SrcEast, << >>>>, <<SrcEastZero, << >>>>, <<SrcMod, << >>>>, <<SrcArith, <<49, IoErr>>>>, <<SrcArith, <<120, 43, 53>>>>}
    \cup {<<SrcArith, TwoInts(a, b)>> : a \in {7, -7, 12}, b \in {3, -3, 0}}
    \cup {<<SrcWalk(k), << >>>> : k \in 1..5}
    \cup {<<SrcWalkNeg(k), << >>>> : k \in 1..5}

\* main.rs, lines 22-26: the debug level is 0, 1 or 2.
DebugLevels == 0..2

\* ------------------------------------------------------------- the state

VARIABLES
    src,          \* the source text given to run()
    grid,         \* Hexagony.grid
    mem,          \* Hexagony.mem
    ips,          \* Hexagony.ips
    ip_idx,       \* Hexagony.ip_idx
    tick,         \* Hexagony.tick
    debug_level,  \* Hexagony.debug_level
    input,        \* Hexagony.input: the bytes of stdin not yet consumed
    stdout,       \* the bytes written to stdout
    stderr,       \* the lines written to stderr
    result,       \* "Running", or how run() returned
    hist,         \* history: the instructions executed so far
    twin          \* a second run of the same source on the same input

vars == <<src, grid, mem, ips, ip_idx, tick, debug_level, input, stdout, stderr,
          result, hist, twin>>

\* The struct of the run the variables hold.
Self ==
    [grid |-> grid, mem |-> mem, ips |-> ips, ip_idx |-> ip_idx, tick |-> tick,
     debug_level |-> debug_level, input |-> input, stdout |-> stdout,
     stderr |-> stderr, result |-> result]

\* The variables become the struct h.
Become(h) ==
    /\ grid' = h.grid
    /\ mem' = h.mem
    /\ ips' = h.ips
    /\ ip_idx' = h.ip_idx
    /\ tick' = h.tick
    /\ debug_level' = h.debug_level
    /\ input' = h.input
    /\ stdout' = h.stdout
    /\ stderr' = h.stderr
    /\ result' = h.result

\* The variables are the struct h.
Is(h) ==
    /\ grid = h.grid
    /\ mem = h.mem
    /\ ips = h.ips
    /\ ip_idx = h.ip_idx
    /\ tick = h.tick
    /\ debug_level = h.debug_level
    /\ input = h.input
    /\ stdout = h.stdout
    /\ stderr = h.stderr
    /\ result = h.result

\* run(src, debug_level) on every run and at every debug level.
Init ==
    \E run \in Runs, level \in DebugLevels :
        /\ src = run[1]
        /\ Is(New(run[1], level, run[2]))
        /\ hist = << >>
        /\ twin = New(run[1], level, run[2])

\* The cell line 81 fetches.
Fetched == GridGet(grid, ips[ip_idx].coords)

\* What the history keeps of a tick: the instruction and its debug flag, the
\* IP that executed it, where it was and where the tick left it, the
\* direction it has and the current edge after the tick, the index active
\* after it and the result (h is the struct after the tick).
HistEntry(h) ==
    [op |-> Fetched[1], dbg |-> Fetched[2], ip |-> ip_idx,
     at |-> ips[ip_idx].coords, to |-> h.ips[ip_idx].coords, v |-> get(h.mem),
     dir |-> h.ips[ip_idx].dir, next |-> h.ip_idx, res |-> h.result]

\* The variables become h, and the history gains the tick.
Commit(h) ==
    /\ Become(h)
    /\ hist' = Append(hist, HistEntry(h))

\* The loop of run() is about to fetch an instruction of the given kind.
Fetches(kind) ==
    /\ result = "Running"
    /\ tick < MaxTicks
    /\ InGrid(grid, ips[ip_idx].coords)
    /\ Fetched[1].kind = kind

\* One iteration of the loop of run().
Iterate ==
    /\ Commit(Tick(Self))
    /\ UNCHANGED <<src, twin>>

TickNop ==
    /\ Fetches("Nop")
    /\ Iterate

TickTerminate ==
    /\ Fetches("Terminate")
    /\ Iterate

TickLetter ==
    /\ Fetches("Letter")
    /\ Iterate

TickDigit ==
    /\ Fetches("Digit")
    /\ Iterate

TickIncrement ==
    /\ Fetches("Increment")
    /\ Iterate

TickDecrement ==
    /\ Fetches("Decrement")
    /\ Iterate

TickAdd ==
    /\ Fetches("Add")
    /\ Iterate

TickSubtract ==
    /\ Fetches("Subtract")
    /\ Iterate

TickMultiply ==
    /\ Fetches("Multiply")
    /\ Iterate

TickDivide ==
    /\ Fetches("Divide")
    /\ Iterate

TickModulo ==
    /\ Fetches("Modulo")
    /\ Iterate

TickNegate ==
    /\ Fetches("Negate")
    /\ Iterate

TickReadByte ==
    /\ Fetches("ReadByte")
    /\ Iterate

TickReadInt ==
    /\ Fetches("ReadInt")
    /\ Iterate

TickWriteByte ==
    /\ Fetches("WriteByte")
    /\ Iterate

TickWriteInt ==
    /\ Fetches("WriteInt")
    /\ Iterate

TickJump ==
    /\ Fetches("Jump")
    /\ Iterate

TickRedir ==
    /\ Fetches("Redir")
    /\ Iterate

TickIPPrev ==
    /\ Fetches("IPPrev")
    /\ Iterate

TickIPNext ==
    /\ Fetches("IPNext")
    /\ Iterate

TickIPSelect ==
    /\ Fetches("IPSelect")
    /\ Iterate

TickMPLeft ==
    /\ Fetches("MPLeft")
    /\ Iterate

TickMPRight ==
    /\ Fetches("MPRight")
    /\ Iterate

TickMPBackLeft ==
    /\ Fetches("MPBackLeft")
    /\ Iterate

TickMPBackRight ==
    /\ Fetches("MPBackRight")
    /\ Iterate

TickMPReverse ==
    /\ Fetches("MPReverse")
    /\ Iterate

TickMPBranch ==
    /\ Fetches("MPBranch")
    /\ Iterate

TickMemCopy ==
    /\ Fetches("MemCopy")
    /\ Iterate

Next ==
    \/ TickNop
    \/ TickTerminate
    \/ TickLetter
    \/ TickDigit
    \/ TickIncrement
    \/ TickDecrement
    \/ TickAdd
    \/ TickSubtract
    \/ TickMultiply
    \/ TickDivide
    \/ TickModulo
    \/ TickNegate
    \/ TickReadByte
    \/ TickReadInt
    \/ TickWriteByte
    \/ TickWriteInt
    \/ TickJump
    \/ TickRedir
    \/ TickIPPrev
    \/ TickIPNext
    \/ TickIPSelect
    \/ TickMPLeft
    \/ TickMPRight
    \/ TickMPBackLeft
    \/ TickMPBackRight
    \/ TickMPReverse
    \/ TickMPBranch
    \/ TickMemCopy

Spec == Init /\ [][Next]_vars

\* ------------------------------------------- the arithmetic of the arms

\* A memory whose left and right neighbours hold left and right.
MemoryWith(rot, left, right) ==
    LET m == [MemoryNew EXCEPT !.rot = rot]
    IN [m EXCEPT !.mem = (left_index(m)[1] :> left) @@ (right_index(m)[1] :> right)]

\* The arms Op::Divide and Op::Modulo on every pair of neighbour values of
\* -MaxVal..MaxVal, under both orientations of the memory pointer.
InitArith ==
    \E left \in -MaxVal..MaxVal, right \in -MaxVal..MaxVal, rot \in Rot :
        /\ src = << >>
        /\ Is([New(<< >>, 0, << >>) EXCEPT !.mem = MemoryWith(rot, left, right)])
        /\ hist = << >>
        /\ twin = New(<< >>, 0, << >>)

\* What the history keeps of an arm applied on its own: the neighbours it
\* read, the memory pointer before it and the current edge after it.
ArmEntry(kind, h) ==
    [op |-> Plain(kind), left |-> get_left(mem), right |-> get_right(mem),
     mp |-> mem.mp, rot |-> mem.rot, v |-> get(h.mem), cells |-> mem.mem]

\* At most this many arms are applied in a row.
MaxOps == 2

\* Another arm can be applied.
CanApply ==
    /\ result = "Running"
    /\ Len(hist) < MaxOps

\* An arm leaves the struct h.
Applied(kind, h) ==
    /\ Become(h)
    /\ hist' = Append(hist, ArmEntry(kind, h))
    /\ UNCHANGED <<src, twin>>

ApplyDivide ==
    /\ CanApply
    /\ Applied("Divide", DoDivide(Self))

ApplyModulo ==
    /\ CanApply
    /\ Applied("Modulo", DoModulo(Self))

NextArith ==
    \/ ApplyDivide
    \/ ApplyModulo

SpecArith == InitArith /\ [][NextArith]_vars

\* ------------------------------------------ the moves of the memory pointer

\* A memory in which three edges around the origin hold values.
SomeCells ==
    (<<0, 0, "E">> :> 5) @@ (<<0, 0, "NE">> :> -2) @@ (<<1, -1, "SE">> :> 3)

\* The memory-pointer arms from every pointer of the square of edges
\* -MaxCoord..MaxCoord, in both orientations, over an empty memory and over
\* one that holds values.
InitMem ==
    \E q \in -MaxCoord..MaxCoord, r \in -MaxCoord..MaxCoord, e \in Dir, rot \in Rot,
       cells \in {<< >>, SomeCells} :
        /\ src = << >>
        /\ Is([New(<< >>, 0, << >>) EXCEPT
                  !.mem = [mem |-> cells, mp |-> <<q, r, e>>, rot |-> rot]])
        /\ hist = << >>
        /\ twin = New(<< >>, 0, << >>)

ApplyMPLeft ==
    /\ CanApply
    /\ Applied("MPLeft", DoMPLeft(Self))

ApplyMPRight ==
    /\ CanApply
    /\ Applied("MPRight", DoMPRight(Self))

ApplyMPBackLeft ==
    /\ CanApply
    /\ Applied("MPBackLeft", DoMPBackLeft(Self))

ApplyMPBackRight ==
    /\ CanApply
    /\ Applied("MPBackRight", DoMPBackRight(Self))

ApplyMPReverse ==
    /\ CanApply
    /\ Applied("MPReverse", DoMPReverse(Self))

NextMem ==
    \/ ApplyMPLeft
    \/ ApplyMPRight
    \/ ApplyMPBackLeft
    \/ ApplyMPBackRight
    \/ ApplyMPReverse

SpecMem == InitMem /\ [][NextMem]_vars

\* ------------------------------------------------- advance_ip on its own

\* advance_ip from every cell of the grids of side 2..MaxSide, in every
\* direction, for every IP, on a negative, a zero and a positive current edge.
InitAdvance ==
    \E size \in 2..MaxSide, q \in -MaxSide..MaxSide, r \in -MaxSide..MaxSide,
       dir \in Direction, v \in {-1, 0, 1}, idx \in {0, 3} :
        /\ Abs(q) < size /\ Abs(q + r) < size /\ Abs(r) < size
        /\ src = << >>
        /\ Is([HexagonyNew(GridNew(size), 0, << >>) EXCEPT
                  !.ips[idx] = [coords |-> PointAxial(q, r), dir |-> dir],
                  !.ip_idx = idx,
                  !.mem = set(MemoryNew, v)])
        /\ hist = << >>
        /\ twin = New(<< >>, 0, << >>)

\* What the history keeps of an advance: the IP, where it was and where it
\* is, its direction before and after, and the current edge.
AdvanceEntry(h) ==
    [ip |-> ip_idx, at |-> ips[ip_idx].coords, to |-> h.ips[ip_idx].coords,
     dir |-> ips[ip_idx].dir, dir_after |-> h.ips[ip_idx].dir, v |-> get(mem),
     others |-> \A i \in 0..5 : i # ip_idx => h.ips[i] = ips[i]]

ApplyAdvance ==
    /\ CanApply
    /\ Become(advance_ip(Self))
    /\ hist' = Append(hist, AdvanceEntry(advance_ip(Self)))
    /\ UNCHANGED <<src, twin>>

NextAdvance == ApplyAdvance

SpecAdvance == InitAdvance /\ [][NextAdvance]_vars

\* ------------------------------------------------- walks of the pointer

\* A walk of the memory pointer is at most this many moves long.
MaxMoves == 6

\* Another move can be made.
CanMove ==
    /\ result = "Running"
    /\ Len(hist) < MaxMoves

\* Walks of move_left and move_right from every pointer InitMem starts at.
InitWalk == InitMem

WalkLeft ==
    /\ CanMove
    /\ Applied("MPLeft", DoMPLeft(Self))

WalkRight ==
    /\ CanMove
    /\ Applied("MPRight", DoMPRight(Self))

NextWalk == WalkLeft \/ WalkRight

SpecWalk == InitWalk /\ [][NextWalk]_vars

\* ------------------------------------------------- fetches of the loop

\* The loop of run() on the empty grid of every side 1..MaxSide, with the
\* active IP on every in-bounds cell and in every direction.
InitFetch ==
    \E size \in 1..MaxSide, q \in -MaxSide..MaxSide, r \in -MaxSide..MaxSide,
       dir \in Direction :
        /\ Abs(q) < size /\ Abs(q + r) < size /\ Abs(r) < size
        /\ src = << >>
        /\ Is([HexagonyNew(GridNew(size), 0, << >>) EXCEPT
                  !.ips[0] = [coords |-> PointAxial(q, r), dir |-> dir]])
        /\ hist = << >>
        /\ twin = New(<< >>, 0, << >>)

\* What the history keeps of a fetch: where the active IP was, the index
\* Grid::get computed for it and the result after the iteration.
FetchEntry(h) ==
    [at |-> ips[ip_idx].coords, index |-> axial_to_index(grid, ips[ip_idx].coords),
     to |-> h.ips[ip_idx].coords, res |-> h.result]

\* One iteration of the loop: the fetch of line 81, the Nop and the advance.
ApplyFetch ==
    /\ CanApply
    /\ Become(Tick(Self))
    /\ hist' = Append(hist, FetchEntry(Tick(Self)))
    /\ UNCHANGED <<src, twin>>

NextFetch == ApplyFetch

SpecFetch == InitFetch /\ [][NextFetch]_vars

\* ------------------------------------------- the parser and the template

\* A character no arm of the match of Grid::from_str accepts, U+0007,
\* written by name.
Bell == "BEL"

\* The characters the source texts are made of.
SrcAlphabet == <<".", "a", Backtick, " ", "7", "\n", "$">>

\* A text of n characters that runs through the alphabet in a pattern.
Pattern(n, a, b) ==
    [i \in 1..n |-> SrcAlphabet[((a * i + b * i * i) % Len(SrcAlphabet)) + 1]]

\* The source texts: every text of up to MaxShort characters, and the
\* patterned texts of up to MaxSrcLen characters.
Sources ==
    UNION {[1..n -> Range(SrcAlphabet) \cup {Bell}] : n \in 0..MaxShort}
    \cup {Pattern(n, a, b) : n \in 0..MaxSrcLen,
                             a \in 0..(Len(SrcAlphabet) - 1), b \in 0..(Len(SrcAlphabet) - 1)}

InitParse ==
    \E text \in Sources :
        /\ src = text
        /\ Is(New(<< >>, 0, << >>))
        /\ hist = << >>
        /\ twin = New(<< >>, 0, << >>)

\* The last function applied, "" before the first.
LastApplied == IF hist = << >> THEN "" ELSE hist[Len(hist)].op

\* source_template(size): its text becomes the source text.
ApplyTemplate ==
    /\ hist = << >>
    /\ src = << >>
    /\ \E size \in 0..MaxTemplate :
          /\ src' = source_template(size)
          /\ hist' = <<[op |-> "source_template", size |-> size]>>
    /\ UNCHANGED <<grid, mem, ips, ip_idx, tick, debug_level, input, stdout, stderr,
                   result, twin>>

\* Hexagony::new on the source text: src.parse()?.
ApplyParse ==
    /\ LastApplied \in {"", "source_template"}
    /\ Become(New(src, 0, << >>))
    /\ hist' = Append(hist, [op |-> "from_str", ok |-> from_str(src).ok])
    /\ UNCHANGED <<src, twin>>

\* Display for Grid on the parsed grid: the text is written to stdout, as
\* main does with the text of source_template.
ApplyDisplay ==
    /\ LastApplied = "from_str"
    /\ result = "Running"
    /\ stdout' = Display(grid)
    /\ hist' = Append(hist, [op |-> "Display"])
    /\ UNCHANGED <<src, grid, mem, ips, ip_idx, tick, debug_level, input, stderr,
                   result, twin>>

NextParse ==
    \/ ApplyTemplate
    \/ ApplyParse
    \/ ApplyDisplay

SpecParse == InitParse /\ [][NextParse]_vars

\* ------------------------------------------------- the reads of stdin

\* The bytes the inputs are made of: + - 0 7 x.
InputBytes == {43, 45, 48, 55, 120}

\* The arms Op::ReadInt and Op::ReadByte on every input of up to MaxInput
\* bytes, with the current edge 0 or 3.
InitRead ==
    \E n \in 0..MaxInput, v \in {0, 3} : \E inp \in [1..n -> InputBytes] :
        /\ src = << >>
        /\ Is([New(<< >>, 0, inp) EXCEPT !.mem = set(MemoryNew, v)])
        /\ hist = << >>
        /\ twin = New(<< >>, 0, << >>)

\* What the history keeps of a read: the input before and after it and
\* the current edge after it.
ReadEntry(kind, h) ==
    [op |-> Plain(kind), input |-> input, rest |-> h.input, v |-> get(h.mem)]

ApplyReadInt ==
    /\ CanApply
    /\ Become(DoReadInt(Self))
    /\ hist' = Append(hist, ReadEntry("ReadInt", DoReadInt(Self)))
    /\ UNCHANGED <<src, twin>>

ApplyReadByte ==
    /\ CanApply
    /\ Become(DoReadByte(Self))
    /\ hist' = Append(hist, ReadEntry("ReadByte", DoReadByte(Self)))
    /\ UNCHANGED <<src, twin>>

NextRead ==
    \/ ApplyReadInt
    \/ ApplyReadByte

SpecRead == InitRead /\ [][NextRead]_vars

\* ------------------------------------------------ two runs side by side

\* The same source on the same input at two different debug levels.
InitTwin ==
    \E run \in Runs, level \in DebugLevels, other \in DebugLevels :
        /\ level # other
        /\ src = run[1]
        /\ Is(New(run[1], level, run[2]))
        /\ hist = << >>
        /\ twin = New(run[1], other, run[2])

\* Both runs execute one iteration of the loop of run().
TickBoth ==
    /\ result = "Running"
    /\ tick < MaxTicks
    /\ InGrid(grid, ips[ip_idx].coords)
    /\ Commit(Tick(Self))
    /\ twin' = IF twin.result = "Running" THEN Tick(twin) ELSE twin
    /\ UNCHANGED src

NextTwin == TickBoth

SpecTwin == InitTwin /\ [][NextTwin]_vars

\* ------------------------------------------------------------ properties

\* A cell address is in bounds: max(|x|, |y|, |z|) < size, with y = -q - r.
InBounds(coords, size) ==
    /\ Abs(coords[1]) < size
    /\ Abs(coords[1] + coords[2]) < size
    /\ Abs(coords[2]) < size

\* The number of steps between two cells of the hexagonal grid.
HexDistance(a, b) ==
    LET dq == Abs(a[1] - b[1])
        dr == Abs(a[2] - b[2])
        dy == Abs((a[1] + a[2]) - (b[1] + b[2]))
    IN IF dq >= dr /\ dq >= dy THEN dq ELSE IF dr >= dy THEN dr ELSE dy

IsPrefix(s, of) == Len(s) <= Len(of) /\ \A i \in DOMAIN s : s[i] = of[i]

\* The kinds of the instructions of the history, in order.
Kinds == [i \in DOMAIN hist |-> hist[i].op.kind]

\* C1: in every reachable state of a run each of the six instruction
\* pointers is in bounds, max(|q|, |q+r|, |r|) < size; so is the active one
\* between the two advances of a Jump.
C1_IpsInBounds ==
    result # "SyntaxError" =>
        /\ \A i \in 0..5 : InBounds(ips[i].coords, grid.size)
        /\ (result = "Running" /\ Fetched[1].kind = "Jump") =>
               InBounds(advance_ip(Self).ips[ip_idx].coords, grid.size)

\* A Jump on a side-3 grid has wrapped: it left the pointer more than two
\* steps from where it was.
C1_JumpWrapped ==
    /\ grid.size = 3
    /\ \A i \in 0..5 : InBounds(ips[i].coords, grid.size)
    /\ \E i \in DOMAIN hist :
          hist[i].op.kind = "Jump" /\ HexDistance(hist[i].at, hist[i].to) > 2

HelloBytes == <<72, 101, 108, 108, 111>>

HeoBytes == <<72, 101, 111>>

\* C2 as stated: the source H;e;l;l;o;@ writes exactly Hello and then
\* terminates successfully.
C2_PrintsHello ==
    src = SrcHello =>
        /\ IsPrefix(stdout, HelloBytes)
        /\ result # "Running" => (result = "Ok" /\ stdout = HelloBytes)

\* C2, amended: the source H;e;l;l;o;@ writes exactly Heo and then
\* terminates successfully, within seven ticks: the top row wraps to the
\* middle row of the side-3 grid, and the second row is never executed.
C2_PrintsHeo ==
    src = SrcHello =>
        /\ result \in {"Running", "Ok"}
        /\ IsPrefix(stdout, HeoBytes)
        /\ result = "Ok" => stdout = HeoBytes
        /\ result = "Running" => (Len(hist) < 7 /\ InGrid(grid, ips[ip_idx].coords))

\* The run of H;e;l;l;o;@ with unread input has terminated with Heo written.
C2_HeoWritten ==
    /\ src = SrcHello
    /\ input # << >>
    /\ result = "Ok"
    /\ stdout = HeoBytes
    /\ Kinds = <<"Letter", "WriteByte", "Letter", "WriteByte", "Letter", "WriteByte",
                 "Terminate">>

\* The five instructions 321+! with the current edge each leaves.
Cycle321 ==
    <<[op |-> Digit(3), v |-> 3], [op |-> Digit(2), v |-> 32], [op |-> Digit(1), v |-> 321],
      [op |-> Plain("Add"), v |-> 0], [op |-> Plain("WriteInt"), v |-> 0]>>

\* C3 as stated: the source 321+!@ executes Digit 3 (v = 3), Digit 2
\* (v = 32), Digit 1 (v = 321), Add (v = 0), WriteInt and then Terminate, and
\* its whole output is 0.
C3_TerminatesAfterZero ==
    src = Src321 =>
        /\ Len(hist) <= 6
        /\ \A i \in DOMAIN hist :
              IF i <= 5 THEN hist[i].op = Cycle321[i].op /\ hist[i].v = Cycle321[i].v
              ELSE hist[i].op.kind = "Terminate"
        /\ IsPrefix(stdout, <<48>>)
        /\ result # "Running" => (result = "Ok" /\ stdout = <<48>>)

\* C3, amended: the source 321+!@ executes Digit 3 (v = 3), Digit 2 (v = 32),
\* Digit 1 (v = 321), Add (v = 0) and WriteInt (prints 0), and then, the edge
\* not being positive, wraps from the east corner back to the first cell and
\* repeats these five instructions: Terminate is never executed, the run does
\* not end, and the output after n instructions is n \div 5 zeros.
C3_RepeatsForever ==
    src = Src321 =>
        /\ result = "Running"
        /\ \A i \in DOMAIN hist :
              /\ hist[i].op = Cycle321[((i - 1) % 5) + 1].op
              /\ hist[i].v = Cycle321[((i - 1) % 5) + 1].v
        /\ stdout = [k \in 1..(Len(hist) \div 5) |-> 48]
        /\ tick = Len(hist)
        /\ InGrid(grid, ips[ip_idx].coords)

\* The run of 321+!@ is in its third round and has written two zeros.
C3_SecondZero ==
    /\ src = Src321
    /\ Len(hist) > 10
    /\ stdout = <<48, 48>>

\* d is the quotient left / right rounded toward negative infinity.
IsFloor(d, left, right) ==
    IF right > 0 THEN d * right <= left /\ left < (d + 1) * right
    ELSE d * right >= left /\ left > (d + 1) * right

\* C4: for every left and every right other than 0, Divide sets the current
\* edge to floor(left / right).
C4_DivideFloors ==
    \A i \in DOMAIN hist :
        (hist[i].op.kind = "Divide" /\ hist[i].right # 0) =>
            IsFloor(hist[i].v, hist[i].left, hist[i].right)

\* C5: for every left and every right other than 0, the values d of Divide
\* and m of Modulo on the same neighbours satisfy left = d * right + m.
C5_DivModIdentity ==
    \A i \in DOMAIN hist, j \in DOMAIN hist :
        (/\ hist[i].op.kind = "Divide"
         /\ hist[j].op.kind = "Modulo"
         /\ hist[i].right # 0) =>
            hist[i].left = hist[i].v * hist[i].right + hist[j].v

\* C6: for every left and every right other than 0, the value of Modulo is 0
\* or has the sign of right, and is smaller in magnitude than right; 7 mod -3
\* is -2 and -7 mod 3 is 2.
C6_ModuloSign ==
    \A i \in DOMAIN hist :
        (hist[i].op.kind = "Modulo" /\ hist[i].right # 0) =>
            /\ hist[i].v = 0 \/ (hist[i].v < 0) = (hist[i].right < 0)
            /\ Abs(hist[i].v) < Abs(hist[i].right)
            /\ (hist[i].left = 7 /\ hist[i].right = -3) => hist[i].v = -2
            /\ (hist[i].left = -7 /\ hist[i].right = 3) => hist[i].v = 2

\* Modulo has been applied to 7 and -3 and has stored -2.
C6_SevenModMinusThree ==
    \E i \in DOMAIN hist :
        /\ hist[i].op.kind = "Modulo"
        /\ hist[i].left = 7
        /\ hist[i].right = -3
        /\ hist[i].v = -2
        /\ get(mem) = -2

\* C7 as stated: move_left followed by move_right returns to the original
\* (mp, rot).
C7_LeftThenRight ==
    Kinds = <<"MPLeft", "MPRight">> =>
        (mem.mp = hist[1].mp /\ mem.rot = hist[1].rot)

\* C7, amended: move_left followed by move_right ends on another edge than
\* the original; move_left followed by reverse, move_right, reverse returns
\* to the original (mp, rot).
C7_LeftThenBackLeft ==
    /\ Kinds = <<"MPLeft", "MPRight">> => mem.mp # hist[1].mp
    /\ Kinds = <<"MPLeft", "MPBackLeft">> =>
          (mem.mp = hist[1].mp /\ mem.rot = hist[1].rot)

\* move_left from an NE edge, then reverse, move_right, reverse, has come
\* back to that edge.
C7_CameBack ==
    /\ Kinds = <<"MPLeft", "MPBackLeft">>
    /\ hist[1].mp[3] = "NE"
    /\ hist[2].mp[3] = "SE"
    /\ mem.mp = hist[1].mp

\* C8 as stated: MPBackLeft leaves rot as it was, and so does MPBackRight.
C8_RotKept ==
    (Kinds = <<"MPBackLeft">> \/ Kinds = <<"MPBackRight">>) => mem.rot = hist[1].rot

\* C8, amended: MPBackLeft leaves rot as it was exactly when the edge it
\* starts on is not an SE edge, and MPBackRight exactly when the edge it
\* starts on is not an NE edge; from an SE edge, an NE edge respectively,
\* rot is flipped.
C8_RotKeptUnlessTableFlips ==
    /\ Kinds = <<"MPBackLeft">> => ((mem.rot = hist[1].rot) <=> hist[1].mp[3] # "SE")
    /\ Kinds = <<"MPBackRight">> => ((mem.rot = hist[1].rot) <=> hist[1].mp[3] # "NE")

\* MPBackLeft from an SE edge has flipped rot.
C8_Flipped ==
    /\ Kinds = <<"MPBackLeft">>
    /\ hist[1].mp[3] = "SE"
    /\ hist[1].rot = "CW"
    /\ mem.rot = "CCW"

\* The ticks whose diagnostic block is on stderr.
BlockTicks == {stderr[i][2] : i \in {j \in DOMAIN stderr : stderr[j][1] = "Tick"}}

\* C9: at debug level 1 a diagnostic block is emitted in a tick if and only
\* if the cell fetched in that tick has its debug flag set; at level 0 no
\* block is ever emitted and at level 2 one is emitted in every tick.
C9_BlockIffFlag ==
    /\ debug_level = 0 => stderr = << >>
    /\ debug_level = 1 => BlockTicks = {i - 1 : i \in {j \in DOMAIN hist : hist[j].dbg}}
    /\ debug_level = 2 => BlockTicks = {i - 1 : i \in DOMAIN hist}

\* What of a run is not diagnostics: the memory and its pointer, the IPs,
\* the active index, the tick counter, the input left, the output and the
\* result.
Semantics(h) ==
    [mem |-> h.mem, ips |-> h.ips, ip_idx |-> h.ip_idx, tick |-> h.tick,
     input |-> h.input, stdout |-> h.stdout, result |-> h.result]

\* C10: two runs of the same source on the same input that differ only in
\* the debug level go through the same memory, memory pointer, IPs, active
\* index and tick counter, consume the same input, write the same output and
\* end with the same result.
C10_SameRun == Semantics(Self) = Semantics(twin)

\* Two runs at different debug levels have written output, have ended with
\* the same error, and differ in their diagnostics.
C10_SameError ==
    /\ debug_level # twin.debug_level
    /\ stderr # twin.stderr
    /\ stdout # << >>
    /\ result = "ZeroDivisionError"
    /\ twin.result = "ZeroDivisionError"

\* C11 as stated: on a side-3 grid an IP that leaves the east corner (q, r)
\* = (2, 0) travelling East with a positive current edge lands on (q + r, -r).
C11_EastCornerFirstRow ==
    \A i \in DOMAIN hist :
        (/\ grid.size = 3
         /\ hist[i].at = PointAxial(2, 0)
         /\ hist[i].dir = "East"
         /\ hist[i].v > 0
         /\ hist[i].op.kind # "Jump"
         /\ hist[i].res = "Running") =>
            hist[i].to = PointAxial(hist[i].at[1] + hist[i].at[2], -hist[i].at[2])

\* C11, amended: on a side-3 grid an IP that leaves the east corner (q, r) =
\* (2, 0) travelling East has x and y out of range and z in range; with a
\* positive current edge it lands on (-q, q + r) = (-2, 2), and otherwise on
\* (-r, -q) = (0, -2).
C11_EastCornerToSouthWest ==
    \A i \in DOMAIN hist :
        (/\ grid.size = 3
         /\ hist[i].at = PointAxial(2, 0)
         /\ hist[i].dir = "East"
         /\ hist[i].op.kind # "Jump"
         /\ hist[i].res = "Running") =>
            LET q == hist[i].at[1]
                r == hist[i].at[2]
                x == q + to_vector("East")[1]
                z == r + to_vector("East")[2]
            IN /\ Abs(x) >= 3 /\ Abs(-x - z) >= 3 /\ Abs(z) < 3
               /\ hist[i].v > 0 => hist[i].to = PointAxial(-q, q + r)
               /\ hist[i].v <= 0 => hist[i].to = PointAxial(-r, -q)

\* IP 5 has left the east corner of a side-3 grid travelling East with a
\* positive edge and is on (-2, 2).
C11_LeftEastCorner ==
    /\ grid.size = 3
    /\ \E i \in DOMAIN hist :
          /\ hist[i].at = PointAxial(2, 0)
          /\ hist[i].dir = "East"
          /\ hist[i].v > 0
          /\ hist[i].op.kind = "Nop"
          /\ hist[i].to = PointAxial(-2, 2)
          /\ ips[hist[i].ip].coords = PointAxial(-2, 2)

\* The unit vectors of the six directions, as (dq, dr).
UnitVector ==
    [d \in Direction |->
        CASE d = "NorthEast" -> <<1, -1>>
          [] d = "NorthWest" -> <<0, -1>>
          [] d = "West" -> <<-1, 0>>
          [] d = "SouthWest" -> <<-1, 1>>
          [] d = "SouthEast" -> <<0, 1>>
          [] d = "East" -> <<1, 0>>]

\* The destination of the wrap table for the three flags and the sign of
\* the current edge, from the pre-move (q, r).
TableDest(q, r, x_big, y_big, z_big, positive) ==
    LET A == <<q + r, -r>>
        B == <<-r, -q>>
        K == <<-q, q + r>>
    IN IF ~x_big /\ ~y_big /\ z_big THEN A
       ELSE IF ~x_big /\ y_big /\ ~z_big THEN B
       ELSE IF x_big /\ ~y_big /\ ~z_big THEN K
       ELSE IF ~x_big /\ y_big /\ z_big THEN (IF positive THEN B ELSE A)
       ELSE IF x_big /\ ~y_big /\ z_big THEN (IF positive THEN A ELSE K)
       ELSE IF x_big /\ y_big /\ ~z_big THEN (IF positive THEN K ELSE B)
       ELSE <<"none">>

\* C12: for every side >= 2, in-bounds position, direction and sign of the
\* current edge, advance_ip moves the active IP to (q, r) + unit vector when
\* that cell is in bounds and otherwise to the destination the wrap table
\* gives for (x_big, y_big, z_big, v > 0) from the pre-move (q, r); the
\* direction is not changed.
C12_AdvanceFollowsTable ==
    \A i \in DOMAIN hist :
        LET e == hist[i]
            x == e.at[1] + UnitVector[e.dir][1]
            z == e.at[2] + UnitVector[e.dir][2]
            y == -x - z
            s == grid.size
        IN /\ e.dir_after = e.dir
           /\ result = "Running"
           /\ IF Abs(x) < s /\ Abs(y) < s /\ Abs(z) < s
              THEN e.to = <<x, z>>
              ELSE e.to = TableDest(e.at[1], e.at[2], Abs(x) >= s, Abs(y) >= s, Abs(z) >= s,
                                    e.v > 0)

\* An advance on a side-4 grid has gone one step, and the next one has left
\* a corner with two flags set and a positive edge.
C12_StepThenCornerWrap ==
    /\ grid.size = 4
    /\ Len(hist) = 2
    /\ hist[1].to = PointAdd(hist[1].at, to_vector(hist[1].dir))
    /\ hist[2].v > 0
    /\ LET x == hist[2].at[1] + to_vector(hist[2].dir)[1]
           z == hist[2].at[2] + to_vector(hist[2].dir)[2]
       IN Abs(x) >= 4 /\ Abs(z) >= 4
    /\ ips[ip_idx].coords = hist[2].to
    /\ hist[2].to # hist[2].at

\* The instructions that select the active IP of the next tick.
SwitchKinds == {"IPPrev", "IPNext", "IPSelect"}

\* C13: in a tick in which IP a executes IPPrev, IPNext or IPSelect, the
\* advance at the end of the tick moves IP a and no other IP; the active
\* index becomes the selected one after that advance; and the next tick
\* fetches at the position the selected IP had before the tick when that IP
\* is not a, at the advanced position of a when it is.
C13_AdvanceThenSwitch ==
    [][(/\ result = "Running"
        /\ InGrid(grid, ips[ip_idx].coords)
        /\ Fetched[1].kind \in SwitchKinds) =>
           /\ result' = "Running"
           /\ ips'[ip_idx] = advance_ip(Self).ips[ip_idx]
           /\ \A i \in 0..5 : i # ip_idx => ips'[i] = ips[i]
           /\ ip_idx' = hist'[Len(hist')].next
           /\ ip_idx' # ip_idx => ips'[ip_idx'].coords = ips[ip_idx'].coords
           /\ ip_idx' = ip_idx => ips'[ip_idx'].coords = advance_ip(Self).ips[ip_idx].coords
           /\ tick' = tick + 1]_vars

\* An IPSelect has moved the IP that executed it, has selected another IP,
\* and the next tick was executed by the selected IP from where it started.
C13_Switched ==
    \E i \in DOMAIN hist :
        /\ hist[i].op.kind = "IPSelect"
        /\ hist[i].next # hist[i].ip
        /\ hist[i].to # hist[i].at
        /\ i + 1 \in DOMAIN hist
        /\ hist[i + 1].ip = hist[i].next
        /\ hist[i + 1].at = HexagonyNew(grid, 0, << >>).ips[hist[i].next].coords

\* C14: IPSelect sets the next active index to the Euclidean remainder of
\* the current edge modulo 6: a value n of 0..5 with v = 6 * k + n for some
\* integer k, so that -1 selects IP 5; and the active index is in 0..5 in
\* every reachable state.
C14_SelectEuclidean ==
    /\ ip_idx \in 0..5
    /\ \A i \in DOMAIN hist :
          hist[i].op.kind = "IPSelect" =>
              /\ hist[i].next \in 0..5
              /\ \E k \in -Abs(hist[i].v)..Abs(hist[i].v) : hist[i].v = 6 * k + hist[i].next
              /\ hist[i].v = -1 => hist[i].next = 5

\* An IPSelect on the edge value -1 has made IP 5 the active IP.
C14_MinusOneSelectsFive ==
    /\ Len(hist) > 0
    /\ hist[Len(hist)].op.kind = "IPSelect"
    /\ hist[Len(hist)].v = -1
    /\ ip_idx = 5

\* The struct before the advance of line 174 in a step of the run: the
\* memory and the direction of the active IP are those the instruction left.
BeforeAdvance == [Self EXCEPT !.mem = mem', !.ips[ip_idx].dir = ips'[ip_idx].dir]

\* C15: a tick that executes Jump and reaches the end of the loop body has
\* advanced the active IP twice, each advance wrapping on its own with the
\* same current edge, and the next instruction of that IP is fetched where
\* the second advance left it, not one step ahead; a tick of any other
\* instruction that reaches the end of the loop body has advanced it once.
C15_JumpAdvancesTwice ==
    [][(/\ result = "Running"
        /\ InGrid(grid, ips[ip_idx].coords)
        /\ result' = "Running") =>
           /\ Fetched[1].kind = "Jump" =>
                 /\ mem' = mem
                 /\ ips' = advance_ip(advance_ip(Self)).ips
                 /\ ip_idx' = ip_idx
                 /\ Fetched' = GridGet(grid, advance_ip(advance_ip(Self)).ips[ip_idx].coords)
           /\ Fetched[1].kind # "Jump" =>
                 ips'[ip_idx].coords = advance_ip(BeforeAdvance).ips[ip_idx].coords]_vars

\* A Jump on a grid of side 3 has gone two steps over a cell that holds
\* an instruction other than Nop, and the same IP has executed the cell
\* after it.
C15_Skipped ==
    \E i \in DOMAIN hist :
        /\ grid.size = 3
        /\ hist[i].op.kind = "Jump"
        /\ hist[i].to = PointAdd(PointAdd(hist[i].at, to_vector(hist[i].dir)),
                                 to_vector(hist[i].dir))
        /\ GridGet(grid, PointAdd(hist[i].at, to_vector(hist[i].dir)))[1].kind # "Nop"
        /\ i + 1 \in DOMAIN hist
        /\ hist[i + 1].ip = hist[i].ip
        /\ hist[i + 1].at = hist[i].to

\* C16: a tick that executes Divide or Modulo while the right neighbour is
\* 0 ends the run with the ZeroDivision error and changes no memory edge, nor
\* the memory pointer, an IP, the active index, the tick counter or the
\* output; and after that error nothing changes any more.
C16_ZeroDivisionEndsRun ==
    [][/\ (/\ result = "Running"
           /\ InGrid(grid, ips[ip_idx].coords)
           /\ Fetched[1].kind \in {"Divide", "Modulo"}
           /\ get_right(mem) = 0) =>
              /\ result' = "ZeroDivisionError"
              /\ UNCHANGED <<mem, ips, ip_idx, tick, stdout, input>>
       /\ result = "ZeroDivisionError" => UNCHANGED <<mem, ips, ip_idx, tick, stdout, result>>]_vars

\* A run that had written output has executed Divide on a right neighbour
\* of 0 and has ended with the ZeroDivision error, the counter still on the
\* tick of the Divide.
C16_DividedByZero ==
    /\ result = "ZeroDivisionError"
    /\ stdout # << >>
    /\ get_right(mem) = 0
    /\ hist[Len(hist)].op.kind = "Divide"
    /\ tick = Len(hist) - 1
    /\ ips[ip_idx].coords = hist[Len(hist)].at

\* The positions of a text that hold an instruction character: neither
\* whitespace nor the debug marker.
InstrPositions(s) == {i \in DOMAIN s : s[i] \notin Whitespace /\ s[i] # Backtick}

\* C17: the side s the parser chooses for a text with N characters that are
\* neither whitespace nor backtick satisfies 3s(s-1)+1 >= N, and when s > 1
\* also 3(s-1)(s-2)+1 < N; N = 0 gives s = 1.
C17_SmallestSide ==
    (LastApplied = "from_str" /\ result = "Running") =>
        LET N == Cardinality(InstrPositions(src))
            s == grid.size
        IN /\ s >= 1
           /\ 3 * s * (s - 1) + 1 >= N
           /\ s > 1 => 3 * (s - 1) * (s - 2) + 1 < N
           /\ N = 0 => s = 1

\* A text of 8 instruction characters, with whitespace and debug markers
\* between them, has been parsed into a grid of side 3.
C17_EightOnSideThree ==
    /\ LastApplied = "from_str"
    /\ result = "Running"
    /\ Cardinality(InstrPositions(src)) = 8
    /\ Len(src) > 10
    /\ grid.size = 3

\* The cells of rows i, i + 1, ... of a grid, one row after the other.
RECURSIVE CellsFrom(_, _)
CellsFrom(rows, i) == IF i > Len(rows) THEN << >> ELSE rows[i] \o CellsFrom(rows, i + 1)

\* The position of the k-th instruction character of a text.
KthInstr(s, k) ==
    CHOOSE i \in InstrPositions(s) : Cardinality({j \in InstrPositions(s) : j < i}) = k - 1

\* A debug marker stands between the (k-1)-th instruction character of a
\* text (its start for k = 1) and the k-th.
MarkedBefore(s, k) ==
    LET from == IF k = 1 THEN 0 ELSE KthInstr(s, k - 1)
    IN \E j \in (from + 1)..(KthInstr(s, k) - 1) : s[j] = Backtick

\* C18: parsing a text of recognised characters succeeds without a write
\* outside the grid; the rows of the grid have the lengths s, s+1, ...,
\* 2s-1, ..., s; the k-th character that is neither whitespace nor backtick
\* is decoded into the k-th cell in row-major order, with a debug flag that
\* is true exactly when a backtick stands between the previous instruction
\* character and it; and every cell after the last character is (Nop, false).
C18_RowMajorPlacement ==
    (LastApplied = "from_str" /\ Bell \notin Range(src)) =>
        LET N == Cardinality(InstrPositions(src))
            s == grid.size
            cells == CellsFrom(grid.grid, 1)
        IN /\ result = "Running"
           /\ Len(grid.grid) = 2 * s - 1
           /\ \A i \in 1..(2 * s - 1) : Len(grid.grid[i]) = 2 * s - 1 - Abs(s - i)
           /\ N <= Len(cells)
           /\ \A k \in 1..Len(cells) :
                 IF k <= N
                 THEN cells[k] = <<DecodeOp(src[KthInstr(src, k)]), MarkedBefore(src, k)>>
                 ELSE cells[k] = <<Nop, FALSE>>

\* A text with whitespace has been parsed into a grid of side 3 that is not
\* full, in which a cell with the debug flag is followed by an instruction
\* without it.
C18_FlagThenNone ==
    /\ LastApplied = "from_str"
    /\ result = "Running"
    /\ grid.size = 3
    /\ Cardinality(InstrPositions(src)) < 19
    /\ \E i \in DOMAIN src : src[i] \in Whitespace
    /\ LET cells == CellsFrom(grid.grid, 1)
       IN \E k \in 4..9 :
             /\ cells[k][2]
             /\ ~cells[k + 1][2]
             /\ cells[k + 1][1] # Nop

\* The text of source_template has been parsed and the parsed grid has
\* been rendered.
RoundTripDone ==
    /\ Len(hist) = 3
    /\ hist[1].op = "source_template"
    /\ hist[2].op = "from_str"
    /\ hist[3].op = "Display"

\* C19 as stated: for any side given to source_template, parsing the text it
\* renders and rendering the parsed grid reproduces that text.
C19_RoundTripAnySide == RoundTripDone => stdout = src

\* C19, amended: for any side s >= 1 given to source_template, parsing the
\* text it renders gives the empty grid of side s, and rendering that grid
\* reproduces the text; for side 0 the text is empty, it parses to the empty
\* grid of side 1, and rendering that grid gives a line of one cell.
C19_RoundTripFromSideOne ==
    RoundTripDone =>
        /\ hist[1].size >= 1 => (grid = GridNew(hist[1].size) /\ stdout = src)
        /\ hist[1].size = 0 =>
              (src = << >> /\ grid = GridNew(1) /\ stdout = <<" ", ".", "\n">>)

\* The template of side 3, five lines of 49 characters in all, has been
\* parsed and rendered again to the same text.
C19_SideThreeAgain ==
    /\ RoundTripDone
    /\ hist[1].size = 3
    /\ Len(src) = 49
    /\ grid.size = 3
    /\ stdout = src

\* The bytes of the ASCII digits.
DigitBytes == 48..57

\* The value of a sequence of digit bytes read as a decimal number, 0 for
\* the empty sequence.
RECURSIVE DecimalValue(_)
DecimalValue(d) ==
    IF d = << >> THEN 0
    ELSE 10 * DecimalValue(SubSeq(d, 1, Len(d) - 1)) + (d[Len(d)] - 48)

\* What ReadInt is to make of an input: with p the first position of a +, a
\* - or a digit, and the digits from p on (from p + 1 on after a sign) as far
\* as they go, the value is that of these digits, negated after a -, and the
\* input left starts behind them; without such a position the value is 0 and
\* no input is left.
ReadIntOf(inp) ==
    LET stops == {i \in DOMAIN inp : inp[i] \in {43, 45} \cup DigitBytes}
    IN IF stops = {} THEN [v |-> 0, rest |-> << >>]
       ELSE LET p == CHOOSE i \in stops : \A j \in stops : i <= j
                end == CHOOSE j \in p..Len(inp) :
                          /\ \A k \in (p + 1)..j : inp[k] \in DigitBytes
                          /\ j < Len(inp) => inp[j + 1] \notin DigitBytes
                first == IF inp[p] \in DigitBytes THEN p ELSE p + 1
            IN [v |-> (IF inp[p] = 45 THEN -1 ELSE 1) * DecimalValue(SubSeq(inp, first, end)),
                rest |-> SubSeq(inp, end + 1, Len(inp))]

\* C20: ReadInt discards the input up to the first +, - or digit, consumes
\* the digits that follow as far as they go, and sets the current edge to
\* the decimal value of the digits read (a digit that ended the prefix
\* being the first of them; 0 if there is none), negated when the prefix
\* ended on -; the byte after the digits stays in the input and is what the
\* next read gets; when the input ends during the prefix the edge is 0, and
\* a + or - not followed by a digit gives 0.
C20_ReadIntValue ==
    \A i \in DOMAIN hist :
        hist[i].op.kind = "ReadInt" =>
            /\ hist[i].v = ReadIntOf(hist[i].input).v
            /\ hist[i].rest = ReadIntOf(hist[i].input).rest
            /\ (i + 1 \in DOMAIN hist /\ hist[i + 1].op.kind = "ReadByte") =>
                  hist[i + 1].v = (IF hist[i].rest = << >> THEN -1 ELSE hist[i].rest[1])
            /\ (\A j \in DOMAIN hist[i].input : hist[i].input[j] = 120) => hist[i].v = 0
            /\ (/\ hist[i].input # << >>
                /\ hist[i].input[1] \in {43, 45}
                /\ (Len(hist[i].input) = 1 \/ hist[i].input[2] \notin DigitBytes)) =>
                   hist[i].v = 0

\* ReadInt on the input x-7x has stored -7 and left the x, which a
\* ReadByte has then read.
C20_MinusSevenThenX ==
    /\ Len(hist) = 2
    /\ hist[1].op.kind = "ReadInt"
    /\ hist[1].input = <<120, 45, 55, 120>>
    /\ hist[1].v = -7
    /\ hist[1].rest = <<120>>
    /\ hist[2].op.kind = "ReadByte"
    /\ get(mem) = 120
    /\ input = << >>

\* How many cube components of the tentative move of the advance e, from
\* e.at in the direction e.dir, are out of range on a grid of side s.
OutOfRange(e, s) ==
    LET x == e.at[1] + UnitVector[e.dir][1]
        z == e.at[2] + UnitVector[e.dir][2]
        y == -x - z
    IN Cardinality({c \in {<<"x", x>>, <<"y", y>>, <<"z", z>>} : Abs(c[2]) >= s})

\* C21: for every side >= 2, from every in-bounds position and direction,
\* the tentative one-step move is out of range on at most two cube
\* components, so the arm of advance_ip marked unreachable!() is never
\* taken: no advance panics, and the flags of a move that is not in range
\* are never all clear or all set.
C21_UnreachableNeverRun ==
    /\ result # "Panic"
    /\ \A i \in DOMAIN hist :
           LET e == hist[i]
               x == e.at[1] + UnitVector[e.dir][1]
               z == e.at[2] + UnitVector[e.dir][2]
               y == -x - z
               s == grid.size
           IN /\ OutOfRange(e, s) \in 0..2
              /\ OutOfRange(e, s) > 0 =>
                     ~IsUnreachable(Abs(x) >= s, Abs(y) >= s, Abs(z) >= s)

\* On the smallest grid with an edge, side 2, an advance has left a corner
\* with two components out of range, and the run goes on.
C21_TwoOutOfRange ==
    /\ grid.size = 2
    /\ Len(hist) = 1
    /\ OutOfRange(hist[1], 2) = 2
    /\ result = "Running"
    /\ ips[ip_idx].coords = hist[1].to
    /\ InBounds(hist[1].to, 2)

\* C22: from every memory-pointer state (mp, rot), MPLeft followed by
\* MPBackLeft restores (mp, rot), MPRight followed by MPBackRight restores
\* (mp, rot), and after either sequence the memory holds the values it held
\* before, on the same edges.
C22_BackUndoesMove ==
    (Kinds = <<"MPLeft", "MPBackLeft">> \/ Kinds = <<"MPRight", "MPBackRight">>) =>
        /\ mem.mp = hist[1].mp
        /\ mem.rot = hist[1].rot
        /\ hist[2].cells = hist[1].cells
        /\ mem.mem = hist[1].cells

\* MPRight from an SE edge of a memory that holds values has flipped rot,
\* and MPBackRight has come back to that edge and orientation.
C22_RightUndone ==
    /\ Kinds = <<"MPRight", "MPBackRight">>
    /\ hist[1].cells = SomeCells
    /\ hist[1].mp[3] = "SE"
    /\ hist[2].mp # hist[1].mp
    /\ hist[2].rot # hist[1].rot
    /\ mem.mp = hist[1].mp
    /\ mem.rot = hist[1].rot
    /\ mem.mem = SomeCells

\* The six edges of the hexagon (q, r): its own three, and the three that
\* its west, north-west and south-west neighbours index.
HexEdges(q, r) ==
    {<<q, r, "NE">>, <<q, r, "E">>, <<q, r, "SE">>,
     <<q - 1, r, "E">>, <<q, r - 1, "SE">>, <<q - 1, r + 1, "NE">>}

\* The edges the pointer was on before each move of the walk.
Visited == {hist[i].mp : i \in DOMAIN hist}

\* C23: from every memory-pointer state (mp, rot), six consecutive
\* move_left operations return to the original (mp, rot) after visiting six
\* pairwise distinct edges, which are the six edges of one hexagon, and so
\* do six consecutive move_right operations.
C23_SixMovesGoRound ==
    (Kinds = [i \in 1..6 |-> "MPLeft"] \/ Kinds = [i \in 1..6 |-> "MPRight"]) =>
        /\ mem.mp = hist[1].mp
        /\ mem.rot = hist[1].rot
        /\ Cardinality(Visited) = 6
        /\ \E q \in -MaxCoord - 2..MaxCoord + 2, r \in -MaxCoord - 2..MaxCoord + 2 :
               Visited = HexEdges(q, r)

\* Six move_left from the NE edge of the hexagon (0, 0), counter-clockwise,
\* have gone round that hexagon and are back on the edge.
C23_RoundTheOrigin ==
    /\ Kinds = [i \in 1..6 |-> "MPLeft"]
    /\ hist[1].mp = <<0, 0, "NE">>
    /\ hist[1].rot = "CCW"
    /\ Visited = HexEdges(0, 0)
    /\ mem.mp = <<0, 0, "NE">>
    /\ mem.rot = "CCW"

\* The in-bounds axial coordinates of a grid of side s.
Cells(s) == {c \in (-s..s) \X (-s..s) : InBounds(c, s)}

\* The (row, col) pairs that index a cell of the vectors of g, from 0.
GridCells(g) ==
    UNION {{<<i - 1, j - 1>> : j \in DOMAIN g.grid[i]} : i \in DOMAIN g.grid}

\* C24: for every side s >= 1, Grid::axial_to_index sends each in-bounds
\* axial coordinate to a row in 0..2s-2 and a column inside that row, sends
\* distinct in-bounds coordinates to distinct cells and reaches every one of
\* the 3s(s-1)+1 cells of the grid; and no fetch of the loop indexes out of
\* range.
C24_FetchIsBijection ==
    LET s == grid.size
        image == {axial_to_index(grid, c) : c \in Cells(s)}
    IN /\ result # "Panic"
       /\ \A c \in Cells(s) :
              /\ axial_to_index(grid, c)[1] \in 0..(2 * s - 2)
              /\ axial_to_index(grid, c)[2] \in
                     0..(Len(grid.grid[axial_to_index(grid, c)[1] + 1]) - 1)
       /\ Cardinality(image) = Cardinality(Cells(s))
       /\ image = GridCells(grid)
       /\ Cardinality(GridCells(grid)) = 3 * s * (s - 1) + 1
       /\ \A i \in DOMAIN hist :
              /\ hist[i].index \in GridCells(grid)
              /\ hist[i].res = "Running"

\* On a grid of side 3 the loop has fetched the first cell of the last row,
\* (q, r) = (-2, 2), at the index (4, 0), and gone on.
C24_FetchedLastRow ==
    /\ grid.size = 3
    /\ Len(hist) = 1
    /\ hist[1].at = <<-2, 2>>
    /\ hist[1].index = <<4, 0>>
    /\ GridGet(grid, hist[1].at) = <<Nop, FALSE>>
    /\ result = "Running"
    /\ tick = 1

====
